---- MODULE Spec2Model ----
(***************************************************************************)
(* Model of the snake tournament repository: the grid rules of            *)
(* game_settings.py, the collision resolution of main.py and the          *)
(* decision engine UserBot of bot.py (safety filter, A*, flood fill,      *)
(* opponent prediction, time-boxed minimax).                              *)
(*                                                                         *)
(* Conventions.  A cell or a move is a pair <<x, y>>.  A Python list of   *)
(* cells is a sequence, head first.  Python's None is NoneVal.  A        *)
(* distance (get_distance) is an integer in units of 1e-7, which tells    *)
(* the distances of the grid apart and keeps their order.  A score is the *)
(* IEEE double of the code, bit for bit (see Floating point); the         *)
(* sentinel scores -1e5 .. -1e9 and +-infinity are order-preserving codes *)
(* (see the SCORE_ definitions).  time.time() is a counter of time-budget *)
(* checks: the first `budget` checks of a call find the budget not        *)
(* exceeded and every later one finds it exceeded.                        *)
(***************************************************************************)
EXTENDS Integers, Sequences, FiniteSets, TLC

VARIABLES
    fn,        \* SpecSafe/SpecFlood/SpecAstar/SpecMinimax/SpecPredict: the pure
               \* function under test
    args,      \* its arguments
    out,       \* its result, NoneVal before the call
    snap,      \* SpecBot: the caller's snapshot (snake, food, opponent, traps);
               \* SpecTournament: the Tournament object
    snap0,     \* the snapshot handed to the first call; SpecCollide: the two snakes
               \* before the resolution
    budget,    \* SpecBot: number of time-budget checks that pass in a call
    randomness,\* SpecBot: UserBot.randomness in millionths
    results,   \* SpecBot: the outcomes of the decide_move calls made so far;
               \* SpecTournament: Tournament.results
    snake1,    \* SpecCollide/SpecGame: SnakeGame.snake1; SpecTurn: the snake
    snake2,    \* SpecCollide/SpecGame: SnakeGame.snake2
    crashed,   \* SpecCollide/SpecGame: an exception left the game loop
    resolved,  \* SpecCollide: check_collisions' snake part has run
    food_positions, \* SpecGame: SnakeGame.food.positions
    trap_positions, \* SpecGame: SnakeGame.traps.positions
    frame      \* SpecGame: the last frame: its inputs and the state between
               \* its steps

vars == <<fn, args, out, snap, snap0, budget, randomness, results,
          snake1, snake2, crashed, resolved, food_positions, trap_positions,
          frame>>

fnVars == <<fn, args, out>>
botVars == <<snap, snap0, budget, randomness, results>>
gameVars == <<snake1, snake2, crashed, resolved, food_positions, trap_positions,
              frame>>

(***************************************************************************)
(* Bounds of the model.                                                    *)
(***************************************************************************)
GRID_WIDTH == 4
GRID_HEIGHT == 3
MaxLen == 4
MaxOppLen == 2
MaxBudget == 2
MaxNodeBudget == 4
MaxScore == 5
MaxGameLen == 6
MaxFnLen == 3
MaxObstacles == 2

NoneVal == <<>>

(***************************************************************************)
(* game_settings.py: Direction, the grid, get_distance.                    *)
(***************************************************************************)
RIGHT == <<1, 0>>
LEFT == <<-1, 0>>
UP == <<0, -1>>
DOWN == <<0, 1>>

opposite(direction) == <<0 - direction[1], 0 - direction[2]>>

Cells == (0 .. GRID_WIDTH - 1) \X (0 .. GRID_HEIGHT - 1)

InBounds(p) == 0 <= p[1] /\ p[1] < GRID_WIDTH /\ 0 <= p[2] /\ p[2] < GRID_HEIGHT

Step(p, m) == <<p[1] + m[1], p[2] + m[2]>>

SeqToSet(s) == {s[i] : i \in 1 .. Len(s)}

Tail1(s) == IF Len(s) = 0 THEN <<>> ELSE SubSeq(s, 2, Len(s))

ButLast(s) == IF Len(s) = 0 THEN <<>> ELSE SubSeq(s, 1, Len(s) - 1)

\* a distance of 1.0 in the fixed point of the model
DistUnit == 10000000

\* floor(DistUnit * sqrt(n)) for n = 0 .. 72, at index n + 1
SqrtTable ==
    <<0, 10000000, 14142135, 17320508, 20000000, 22360679,
      24494897, 26457513, 28284271, 30000000, 31622776, 33166247,
      34641016, 36055512, 37416573, 38729833, 40000000, 41231056,
      42426406, 43588989, 44721359, 45825756, 46904157, 47958315,
      48989794, 50000000, 50990195, 51961524, 52915026, 53851648,
      54772255, 55677643, 56568542, 57445626, 58309518, 59160797,
      60000000, 60827625, 61644140, 62449979, 63245553, 64031242,
      64807406, 65574385, 66332495, 67082039, 67823299, 68556546,
      69282032, 70000000, 70710678, 71414284, 72111025, 72801098,
      73484692, 74161984, 74833147, 75498344, 76157731, 76811457,
      77459666, 78102496, 78740078, 79372539, 80000000, 80622577,
      81240384, 81853527, 82462112, 83066238, 83666002, 84261497,
      84852813>>

\* math.hypot, in units of 1e-7
get_distance(pos1, pos2) ==
    SqrtTable[(pos1[1] - pos2[1]) * (pos1[1] - pos2[1])
              + (pos1[2] - pos2[2]) * (pos1[2] - pos2[2]) + 1]

(***************************************************************************)
(* Floating point.  The scores of the code are IEEE doubles, and which of  *)
(* two scores is the greater can hang on the last bit of a sum, so the     *)
(* arithmetic of the heuristic is done as the machine does it.  A double   *)
(* is kept as the whole number of ulps it is: the pair <<hi, lo>> stands   *)
(* for hi * 2^30 + lo ulps, 0 <= lo < 2^30, and hi < 0 for a negative      *)
(* value.  The ulp of a distance is 2^-52 (a distance is 0 or at least 1), *)
(* the ulp of a score is 2^-50 (a term of the heuristic is 0 or at least 4 *)
(* in magnitude on a grid of up to 30 cells, where a path has at most 30   *)
(* cells, and so every sum of terms is a multiple of 2^-50).  An operation *)
(* computes the exact result and rounds it to the 53 bits of a             *)
(* significand, to nearest, ties to even.                                  *)
(***************************************************************************)
Limb == 2^30

FloatZero == <<0, 0>>

\* hi * Limb + lo with lo brought back into 0 .. Limb - 1
FloatNorm(hi, lo) == <<hi + lo \div Limb, lo % Limb>>

FloatNeg(x) == IF x[2] = 0 THEN <<0 - x[1], 0>> ELSE <<0 - x[1] - 1, Limb - x[2]>>

FloatLess(x, y) == x[1] < y[1] \/ (x[1] = y[1] /\ x[2] < y[2])

\* the bits of a magnitude beyond the 53 of a double's significand
ExcessBits(hi) == Cardinality({k \in 23 .. 30 : hi >= 2^k})

\* round-to-nearest, ties to even, of the magnitude x to 53 significant bits;
\* sticky: bits below x are not all zero
RoundMagnitude(x, sticky) ==
    IF x[1] < 2^23 THEN x
    ELSE LET p == 2^ExcessBits(x[1])
             q == x[2] \div p
             r == x[2] % p
             up == 2 * r > p \/ (2 * r = p /\ (sticky \/ q % 2 = 1))
         IN FloatNorm(x[1], (IF up THEN q + 1 ELSE q) * p)

FloatRound(x) ==
    IF x[1] < 0 THEN FloatNeg(RoundMagnitude(FloatNeg(x), FALSE))
    ELSE RoundMagnitude(x, FALSE)

FloatAdd(x, y) == FloatRound(FloatNorm(x[1] + y[1], x[2] + y[2]))

FloatSub(x, y) == FloatAdd(x, FloatNeg(y))

\* x / 2^k for a magnitude x that is a multiple of 2^k (k < 30)
ShiftDown(x, k) == <<x[1] \div 2^k, (x[1] % 2^k) * 2^(30 - k) + x[2] \div 2^k>>

\* an integer as a distance and as a score
DistOfInt(k) == <<k * 2^22, 0>>
ScoreOfInt(k) == <<k * 2^20, 0>>

\* the exact product of the integer k < 2^8 and a magnitude x
TimesInt(k, x) ==
    LET p0 == k * (x[2] % 2^15)
        p1 == k * (x[2] \div 2^15)
    IN FloatNorm(k * x[1] + p1 \div 2^15, (p1 % 2^15) * 2^15 + p0)

\* x - y for magnitudes y <= x
Minus(x, y) ==
    IF x[2] >= y[2] THEN <<x[1] - y[1], x[2] - y[2]>>
    ELSE <<x[1] - y[1] - 1, x[2] + Limb - y[2]>>

\* long division, one base-16 digit a step: s.q the quotient so far and s.r
\* the remainder so far of the integer w < 2^12 by the distance d; the
\* quotient is in distance ulps
DivideStep(s, digit, d) ==
    LET r2 == <<TimesInt(16, s.r)[1], TimesInt(16, s.r)[2] + digit>>
        t == CHOOSE t \in 0 .. 15 :
                 /\ ~FloatLess(r2, TimesInt(t, d))
                 /\ FloatLess(r2, TimesInt(t + 1, d))
    IN [r |-> Minus(r2, TimesInt(t, d)),
        q |-> <<TimesInt(16, s.q)[1], TimesInt(16, s.q)[2] + t>>]

RECURSIVE DivideLoop(_, _, _, _)
DivideLoop(w, d, k, s) ==
    IF k < 0 \/ s.q[1] >= Limb THEN s  \* w / d < 2^9: the quotient fits its two limbs
    ELSE DivideLoop(w, d, k - 1,
                    DivideStep(s, IF k >= 26 THEN (w \div 16^(k - 26)) % 16 ELSE 0, d))

\* the double w / d as a score, for an integer w and a distance d with
\* 4 <= w / d
FloatDiv(w, d) ==
    LET s == DivideLoop(w, d, 28, [r |-> FloatZero, q |-> FloatZero])
    IN ShiftDown(RoundMagnitude(s.q, s.r # FloatZero), 2)

\* the double k * x as a magnitude in ulps 2^shift times those of x, for an
\* integer k < 2^8 and a magnitude x with 2^shift <= 2^53 ulps of k * x
FloatTimesInt(k, x, shift) == ShiftDown(RoundMagnitude(TimesInt(k, x), FALSE), shift)

\* the four base-2^14 digits of a magnitude below 2^56
Digits(x) ==
    <<x[2] % 2^14, (x[2] \div 2^14) % 2^14,
      x[2] \div 2^28 + (x[1] % 2^12) * 4, x[1] \div 2^12>>

\* the digits, carries propagated, of the column sums c of a product
RECURSIVE Carry(_, _, _)
Carry(c, i, carry) ==
    IF i > Len(c) THEN <<carry>>
    ELSE <<(c[i] + carry) % 2^14>> \o Carry(c, i + 1, (c[i] + carry) \div 2^14)

Digit(x, i) == IF i \in 1 .. 4 THEN x[i] ELSE 0

\* the double a * b as a score: a in units of 2^-46, b a distance, 4 <= a * b
FloatMul(a, b) ==
    LET x == Digits(a)
        y == Digits(b)
        col == [n \in 1 .. 7 |-> x[1] * Digit(y, n) + x[2] * Digit(y, n - 1)
                                 + x[3] * Digit(y, n - 2) + x[4] * Digit(y, n - 3)]
        e == Carry(col, 1, 0)
        sticky == e[1] # 0 \/ e[2] # 0 \/ e[3] # 0 \/ e[4] % 16 # 0
        q == <<e[6] \div 2^6 + e[7] * 2^8 + e[8] * 2^22,
               e[4] \div 16 + e[5] * 2^10 + (e[6] % 2^6) * 2^24>>
    IN ShiftDown(RoundMagnitude(q, sticky), 2)

\* math.hypot(dx, dy) for n = dx * dx + dy * dy = 0 .. 72, at index n + 1, in
\* distance ulps
HypotDouble ==
    <<<<0, 0>>, <<4194304, 0>>, <<5931641, 645872589>>,
      <<7264747, 676875434>>, <<8388608, 0>>, <<9378748, 925886800>>,
      <<10273904, 672285276>>, <<11097085, 329642452>>, <<11863283, 218003354>>,
      <<12582912, 0>>, <<13263553, 901035686>>, <<13910932, 670752360>>,
      <<14529495, 280009044>>, <<15122778, 146977766>>, <<15693648, 584089234>>,
      <<16244469, 580820404>>, <<16777216, 0>>, <<17293558, 448771100>>,
      <<17794924, 863875940>>, <<18282547, 294729700>>, <<18757497, 778031776>>,
      <<19220715, 609516052>>, <<19673029, 626088604>>, <<20115175, 366743640>>,
      <<20547809, 270828728>>, <<20971520, 0>>, <<21386837, 1011400664>>,
      <<21794242, 956884480>>, <<22194170, 659284904>>, <<22587018, 312698828>>,
      <<22973149, 148543036>>, <<23352896, 363005708>>, <<23726566, 436006708>>,
      <<24094442, 93012928>>, <<24456784, 919506568>>, <<24813837, 105842868>>,
      <<25165824, 0>>, <<25512955, 227504356>>, <<25855426, 333191524>>,
      <<26193420, 90918440>>, <<26527107, 728329548>>, <<26856649, 645921792>>,
      <<27182196, 681068944>>, <<27503890, 678856064>>, <<27821865, 267762896>>,
      <<28136246, 630176752>>, <<28447153, 834879628>>, <<28754699, 550915992>>,
      <<29058990, 560018088>>, <<29360128, 0>>, <<29658208, 8137472>>,
      <<29953321, 884281144>>, <<30245556, 293955532>>, <<30534994, 31190948>>,
      <<30821713, 943114008>>, <<31105790, 1051428704>>, <<31387297, 94436644>>,
      <<31666300, 828063088>>, <<31942867, 645337536>>, <<32217060, 359562092>>,
      <<32488939, 87898984>>, <<32758561, 490328480>>, <<33025982, 775240776>>,
      <<33291255, 988927356>>, <<33554432, 0>>, <<33815559, 990762624>>,
      <<34074686, 833994848>>, <<34331857, 936813656>>, <<34587116, 897542200>>,
      <<34840505, 745963592>>, <<35092064, 1030061784>>, <<35341833, 749721648>>,
      <<35589849, 654010056>>>>

\* the index in SqrtTable and in HypotDouble of the distance dist
IndexOfDistance(dist) == CHOOSE n \in 1 .. Len(SqrtTable) : SqrtTable[n] = dist

\* math.tanh(k / 3.0) for k = 0 .. 10, at index k + 1, in units of 2^-54;
\* tanh is odd
TanhThirdDouble ==
    <<<<0, 0>>, <<5394088, 691832834>>, <<9777475, 381412514>>,
      <<12777429, 707389224>>, <<14597212, 464259918>>, <<15621427, 26082716>>,
      <<16173698, 1010272168>>, <<16464624, 295967480>>, <<16615995, 264109352>>,
      <<16694248, 573838848>>, <<16734567, 828101416>>>>

\* the literal 0.4 of line 711, in units of 2^-54
Double04 == <<6710886, 429496730>>

\* opponent=None / traps=None
NoSnake == [present |-> FALSE]

(***************************************************************************)
(* game_settings.py: is_safe.  `other` is NoSnake when no opponent is      *)
(* passed; a Snake object is always truthy, dead or alive.                 *)
(***************************************************************************)
\* is_safe with the opponent's head skipped, as the snake's own head is
is_safe_skip_other_head(segments, new_head_pos, other) ==
    IF ~InBounds(new_head_pos) THEN FALSE
    ELSE IF \E i \in 2 .. Len(segments) : new_head_pos = segments[i] THEN FALSE
    ELSE IF other.present /\ (\E i \in 2 .. Len(other.segments) : new_head_pos = other.segments[i])
         THEN FALSE
    ELSE TRUE

is_safe(segments, new_head_pos, other) ==
    IF ~InBounds(new_head_pos) THEN FALSE
    ELSE IF \E i \in 2 .. Len(segments) : new_head_pos = segments[i] THEN FALSE
    ELSE IF other.present /\ (\E i \in 1 .. Len(other.segments) : new_head_pos = other.segments[i])
         THEN FALSE
    ELSE TRUE

(***************************************************************************)
(* bot.py: UserBot._flood_fill_area.  The deque is a sequence; one call of *)
(* FloodLoop is one test of the while condition, and, when it holds, one   *)
(* pop with the scan of the four neighbours.  `nodes` counts the pops.     *)
(***************************************************************************)
SearchMoves == <<RIGHT, LEFT, DOWN, UP>>

Neighbours(pos) == [i \in 1 .. 4 |-> Step(pos, SearchMoves[i])]

\* the admission test without the obstacle set
FloodAdmitNoObstacles(nt, visited, obstacles) ==
    InBounds(nt) /\ nt \notin visited

FloodAdmit(nt, visited, obstacles) ==
    InBounds(nt) /\ nt \notin visited /\ nt \notin obstacles

\* the loop without the node budget: it runs until the queue is empty
RECURSIVE FloodLoopNoBudget(_, _, _, _, _, _)
FloodLoopNoBudget(q, visited, obstacles, count, nodes, max_nodes) ==
    IF Len(q) = 0
    THEN [count |-> count, nodes |-> nodes]
    ELSE LET pos == Head(q)
             new == SelectSeq(Neighbours(pos),
                              LAMBDA nt : InBounds(nt) /\ nt \notin visited
                                          /\ nt \notin obstacles)
         IN FloodLoopNoBudget(Tail(q) \o new, visited \cup SeqToSet(new), obstacles,
                              count + 1, nodes + 1, max_nodes)

RECURSIVE FloodLoop(_, _, _, _, _, _)
FloodLoop(q, visited, obstacles, count, nodes, max_nodes) ==
    IF Len(q) = 0 \/ ~(nodes < max_nodes)
    THEN [count |-> count, nodes |-> nodes]
    ELSE LET pos == Head(q)
             new == SelectSeq(Neighbours(pos),
                              LAMBDA nt : FloodAdmit(nt, visited, obstacles))
         IN FloodLoop(Tail(q) \o new, visited \cup SeqToSet(new), obstacles,
                      count + 1, nodes + 1, max_nodes)

flood_fill_run(head_pos, my_segments, other_segments, max_nodes) ==
    FloodLoop(<<head_pos>>, {head_pos},
              SeqToSet(my_segments) \cup SeqToSet(other_segments), 0, 0, max_nodes)

flood_fill_area(head_pos, my_segments, other_segments, max_nodes) ==
    flood_fill_run(head_pos, my_segments, other_segments, max_nodes).count

(***************************************************************************)
(* bot.py: UserBot._astar.  The heap holds tuples (f, cell, path); heappop *)
(* returns the least tuple in Python's tuple order: f, then the cell, then *)
(* the path, each compared lexicographically.                              *)
(***************************************************************************)
LessCell(a, b) == a[1] < b[1] \/ (a[1] = b[1] /\ a[2] < b[2])

LessPath(p, q) ==
    LET n == IF Len(p) < Len(q) THEN Len(p) ELSE Len(q)
        D == {i \in 1 .. n : p[i] # q[i]}
    IN IF D = {} THEN Len(p) < Len(q)
       ELSE LET i == CHOOSE j \in D : \A k \in D : j <= k
            IN LessCell(p[i], q[i])

LessEntry(a, b) ==
    \/ a.f < b.f
    \/ a.f = b.f /\ LessCell(a.cell, b.cell)
    \/ a.f = b.f /\ a.cell = b.cell /\ LessPath(a.path, b.path)

\* a heap that hands out its greatest entry
heappop_greatest(open_heap) ==
    CHOOSE e \in open_heap : \A o \in open_heap \ {e} : LessEntry(o, e)

heappop(open_heap) ==
    CHOOSE e \in open_heap : \A o \in open_heap \ {e} : LessEntry(e, o)

\* the test of lines 592-597 without the obstacle test of line 594
AstarAdmitObstacles(nt, obstacles, gscore, tentative_g) ==
    /\ InBounds(nt)
    /\ (nt \notin DOMAIN gscore \/ tentative_g < gscore[nt])

AstarAdmit(nt, obstacles, gscore, tentative_g) ==
    /\ InBounds(nt)
    /\ nt \notin obstacles
    /\ (nt \notin DOMAIN gscore \/ tentative_g < gscore[nt])

\* the search without the node budget: it runs until the heap is empty
RECURSIVE AstarLoopNoBudget(_, _, _, _, _, _, _)
AstarLoopNoBudget(open_heap, gscore, closed, nodes, target, obstacles, max_nodes) ==
    IF open_heap = {}
    THEN [path |-> <<>>, nodes |-> nodes]
    ELSE LET e == heappop(open_heap)
             rest == open_heap \ {e}
             current == e.cell
         IN IF current = target THEN [path |-> e.path, nodes |-> nodes + 1]
            ELSE IF current \in closed
            THEN AstarLoopNoBudget(rest, gscore, closed, nodes + 1, target, obstacles,
                                   max_nodes)
            ELSE LET tentative_g == gscore[current] + 1
                     push == {nt \in SeqToSet(Neighbours(current)) :
                                 AstarAdmit(nt, obstacles, gscore, tentative_g)}
                     pushed == {[f |-> tentative_g * DistUnit + get_distance(nt, target),
                                 cell |-> nt,
                                 path |-> Append(e.path, nt)] : nt \in push}
                     gscore2 == [c \in DOMAIN gscore \cup push |->
                                    IF c \in push THEN tentative_g ELSE gscore[c]]
                 IN AstarLoopNoBudget(rest \cup pushed, gscore2, closed \cup {current},
                                      nodes + 1, target, obstacles, max_nodes)

RECURSIVE AstarLoop(_, _, _, _, _, _, _)
AstarLoop(open_heap, gscore, closed, nodes, target, obstacles, max_nodes) ==
    IF open_heap = {} \/ ~(nodes < max_nodes)
    THEN [path |-> <<>>, nodes |-> nodes]
    ELSE LET e == heappop(open_heap)
             rest == open_heap \ {e}
             current == e.cell
         IN IF current = target THEN [path |-> e.path, nodes |-> nodes + 1]
            ELSE IF current \in closed
            THEN AstarLoop(rest, gscore, closed, nodes + 1, target, obstacles, max_nodes)
            ELSE LET tentative_g == gscore[current] + 1
                     push == {nt \in SeqToSet(Neighbours(current)) :
                                 AstarAdmit(nt, obstacles, gscore, tentative_g)}
                     pushed == {[f |-> tentative_g * DistUnit + get_distance(nt, target),
                                 cell |-> nt,
                                 path |-> Append(e.path, nt)] : nt \in push}
                     gscore2 == [c \in DOMAIN gscore \cup push |->
                                    IF c \in push THEN tentative_g ELSE gscore[c]]
                 IN AstarLoop(rest \cup pushed, gscore2, closed \cup {current},
                              nodes + 1, target, obstacles, max_nodes)

astar_run(start, target, obstacles, max_nodes) ==
    AstarLoop({[f |-> get_distance(start, target), cell |-> start, path |-> <<start>>]},
              [c \in {start} |-> 0], {}, 0, target, obstacles, max_nodes)

astar(start, target, obstacles, max_nodes) ==
    astar_run(start, target, obstacles, max_nodes).path

(***************************************************************************)
(* bot.py: UserBot.__init__ (weights in units, randomness in millionths).  *)
(***************************************************************************)
food_weight == 200
area_weight == 6
danger_weight == 220
length_weight == 40
astar_bonus_weight == 120
trap_penalty_weight == 350
max_minimax_depth == 2
max_astar_nodes == 800
max_bfs_nodes == 300
default_randomness == 20000
heuristic_astar_nodes == 120
predict_steps == 3

(***************************************************************************)
(* Scores.  On the grids of the model a heuristic value lies between -1000 *)
(* and 500.  The sentinels are codes that keep the order                   *)
(*   -inf < -1e9 < -1e7 < -1e6 < -1e5 < every heuristic value < +inf       *)
(* and stay apart by more than any jitter.                                 *)
(***************************************************************************)
SCORE_OPP_HITS_BODY == ScoreOfInt(0 - 1100)
SCORE_NO_MOVES == ScoreOfInt(0 - 1200)
SCORE_TRAP == ScoreOfInt(0 - 1300)
SCORE_DEAD == ScoreOfInt(0 - 1400)
SCORE_NEG_INF == ScoreOfInt(0 - 1500)
SCORE_POS_INF == ScoreOfInt(1500)

Max2(a, b) == IF a > b THEN a ELSE b
Min2(a, b) == IF a < b THEN a ELSE b

\* max(a, b) and min(a, b) of two scores: b only if it is beyond a
FloatMax(a, b) == IF FloatLess(a, b) THEN b ELSE a
FloatMin(a, b) == IF FloatLess(b, a) THEN b ELSE a

\* float addition of a jitter in [0, randomness): infinity absorbs it
AddJitter(score, jitter) ==
    IF score = SCORE_POS_INF \/ score = SCORE_NEG_INF THEN score
    ELSE FloatAdd(score, jitter)

\* sorted(seq, key=...) is stable: an element goes after the elements already
\* placed whose key is not greater
RECURSIVE InsertByKey(_, _, _, _)
InsertByKey(sorted, keys, x, kx) ==
    IF Len(sorted) = 0 THEN <<x>>
    ELSE IF keys[Len(sorted)] <= kx THEN Append(sorted, x)
    ELSE Append(InsertByKey(ButLast(sorted), ButLast(keys), x, kx), sorted[Len(sorted)])

RECURSIVE SortedBy(_, _)
SortedBy(seq, key) ==
    IF Len(seq) = 0 THEN <<>>
    ELSE LET firsts == SortedBy(ButLast(seq), ButLast(key))
             fkeys == SortedBy(ButLast(key), ButLast(key))
         IN InsertByKey(firsts, fkeys, seq[Len(seq)], key[Len(seq)])

FirstN(seq, n) == IF Len(seq) <= n THEN seq ELSE SubSeq(seq, 1, n)

MinOf(S, default) == IF S = {} THEN default ELSE CHOOSE x \in S : \A y \in S : x <= y

\* min(get_distance(p, c) for c in cells), DIST_INF for float('inf')
DIST_INF == 200 * DistUnit
MinDistance(p, cells) == MinOf({get_distance(p, c) : c \in cells}, DIST_INF)

(***************************************************************************)
(* bot.py: UserBot._predict_opponent_next_heads, _simulate_step,           *)
(* _available_moves_from.                                                  *)
(***************************************************************************)
RECURSIVE PredictLoop(_, _, _, _)
PredictLoop(pos, dir, steps, path) ==
    IF steps = 0 THEN path
    ELSE LET nxt == Step(pos, dir)
         IN IF ~InBounds(nxt) THEN path
            ELSE PredictLoop(nxt, dir, steps - 1, Append(path, nxt))

predict_opponent_next_heads(opponent, steps) ==
    IF ~opponent.present \/ ~opponent.alive THEN <<>>
    ELSE PredictLoop(opponent.segments[1], opponent.direction, steps, <<>>)

\* returns <<new_head, new_body>>
simulate_step(snake_head, snake_body, move) ==
    LET new_head == Step(snake_head, move)
    IN <<new_head,
         IF Len(snake_body) > 0 THEN <<new_head>> \o ButLast(snake_body)
         ELSE <<new_head>>>>

AvailableMove(head, body, other_body, m) ==
    LET nh == Step(head, m)
    IN /\ InBounds(nh)
       /\ nh \notin SeqToSet(Tail1(body))
       /\ nh \notin SeqToSet(other_body)

available_moves_from(head, body, other_body) ==
    SelectSeq(SearchMoves, LAMBDA m : AvailableMove(head, body, other_body, m))

(***************************************************************************)
(* bot.py: UserBot._minimax_score and its closures.  cx is what the        *)
(* closures capture: food_list, traps_set, the opponent object of the      *)
(* snapshot and the time budget.  `clock` counts the time-budget checks    *)
(* made since start_t; every search result carries the clock it leaves.    *)
(***************************************************************************)
NoLimit == <<>>

\* time.time() - start_time > self.time_budget
TimeOver(cx, clock) == cx.budget # NoLimit /\ clock >= cx.budget[1]

\* line 701: self.astar_bonus / len(path), by the length of the path
astar_bonus_of_length ==
    [n \in 1 .. GRID_WIDTH * GRID_HEIGHT |-> FloatDiv(astar_bonus_weight, DistOfInt(n))]

\* lines 683 and 690: weight / (dist + 1.0), by the index of the distance in
\* HypotDouble
food_score_of_distance ==
    [n \in 1 .. Len(HypotDouble) |->
        FloatDiv(food_weight, FloatAdd(HypotDouble[n], DistOfInt(1)))]

trap_score_of_distance ==
    [n \in 1 .. Len(HypotDouble) |->
        FloatNeg(FloatDiv(trap_penalty_weight, FloatAdd(HypotDouble[n], DistOfInt(1))))]

\* line 693: length_weight * tanh(len_diff / 3.0), by len_diff + 1 >= 1
length_score_of_difference ==
    [k \in 1 .. Len(TanhThirdDouble) |->
        FloatTimesInt(length_weight, TanhThirdDouble[k], 4)]

\* lines 709 and 711: the distances below 2 are the first four of HypotDouble
danger_score_long ==
    [n \in 1 .. 4 |->
        FloatNeg(FloatTimesInt(danger_weight, FloatSub(DistOfInt(2), HypotDouble[n]), 2))]

danger_score_short ==
    [n \in 1 .. 4 |->
        FloatNeg(FloatMul(FloatTimesInt(danger_weight, Double04, 8),
                          FloatSub(DistOfInt(2), HypotDouble[n])))]

\* lines 695-702: the bonus of the first target, nearest first, that A*
\* reaches
RECURSIVE astar_bonus_loop(_, _, _, _)
RECURSIVE astar_bonus_step(_, _, _, _, _)
astar_bonus_step(my_h, try_targets, obstacles, i, path) ==
    IF Len(path) > 0 THEN astar_bonus_of_length[Len(path)]
    ELSE astar_bonus_loop(my_h, try_targets, obstacles, i + 1)

astar_bonus_loop(my_h, try_targets, obstacles, i) ==
    IF i > Len(try_targets) THEN FloatZero
    ELSE astar_bonus_step(my_h, try_targets, obstacles, i,
                          astar(my_h, try_targets[i], obstacles, heuristic_astar_nodes))

\* lines 683, 687, 690, 693, 706-711: the terms, from the distances and areas
food_score(food_list, food_dist) ==
    IF Len(food_list) = 0 THEN FloatZero
    ELSE food_score_of_distance[IndexOfDistance(food_dist)]

area_score(my_area, opp_area) == ScoreOfInt(area_weight * (my_area - opp_area))

trap_score(trap_dist) ==
    IF trap_dist < 4 * DistUnit
    THEN trap_score_of_distance[IndexOfDistance(trap_dist)]
    ELSE FloatZero

length_score(my_b, opp_b) ==
    IF Len(my_b) >= Len(opp_b)
    THEN length_score_of_difference[Len(my_b) - Len(opp_b) + 1]
    ELSE FloatNeg(length_score_of_difference[Len(opp_b) - Len(my_b) + 1])

danger_score(my_b, opp_b, min_opp_dist) ==
    IF min_opp_dist < 2 * DistUnit
    THEN IF Len(opp_b) > 0 /\ Len(opp_b) >= Len(my_b)
         THEN danger_score_long[IndexOfDistance(min_opp_dist)]
         ELSE danger_score_short[IndexOfDistance(min_opp_dist)]
    ELSE FloatZero

try_targets(food_list, my_h) ==
    FirstN(SortedBy(food_list,
                    [i \in 1 .. Len(food_list) |-> get_distance(my_h, food_list[i])]), 2)

\* line 713: the sum, left to right
heuristic(cx, my_h, my_b, opp_h, opp_b) ==
    FloatAdd(FloatAdd(FloatAdd(FloatAdd(FloatAdd(
        food_score(cx.food_list, MinDistance(my_h, SeqToSet(cx.food_list))),
        area_score(flood_fill_area(my_h, my_b, opp_b, max_bfs_nodes),
                   IF opp_h # NoneVal
                   THEN flood_fill_area(opp_h, opp_b, my_b, max_bfs_nodes) ELSE 0)),
        astar_bonus_loop(my_h, try_targets(cx.food_list, my_h),
                         SeqToSet(my_b) \cup SeqToSet(opp_b) \cup cx.traps_set, 1)),
        length_score(my_b, opp_b)),
        trap_score(MinDistance(my_h, cx.traps_set))),
        danger_score(my_b, opp_b,
                     MinDistance(my_h,
                                 SeqToSet(predict_opponent_next_heads(cx.opponent,
                                                                      predict_steps)))))

predict_opponent_moves(cx, opp_h, opp_b, my_b) ==
    LET moves == available_moves_from(opp_h, opp_b, my_b)
    IN IF Len(moves) = 0 THEN << <<0, 0>> >>
       ELSE FirstN(SortedBy(moves,
                            [i \in 1 .. Len(moves) |->
                                MinDistance(Step(opp_h, moves[i]), SeqToSet(cx.food_list))]), 3)

RECURSIVE minimax(_, _, _, _, _, _, _, _, _, _)
RECURSIVE MaxLoop(_, _, _, _, _, _, _, _, _, _, _, _)
RECURSIVE MaxStep(_, _, _, _, _, _, _, _, _, _, _, _)
RECURSIVE MinLoop(_, _, _, _, _, _, _, _, _, _, _, _)
RECURSIVE MinStep(_, _, _, _, _, _, _, _, _, _, _, _)
RECURSIVE MinStepEarlyCut(_, _, _, _, _, _, _, _, _, _, _, _)

\* lines 747-751: the value r of the child, then the cut or the next move
MaxStep(cx, my_h, my_b, opp_h, opp_b, depth, moves, i, val, alpha, beta, r) ==
    IF ~FloatLess(FloatMax(alpha, FloatMax(val, r.v)), beta)
    THEN [v |-> FloatMax(val, r.v), clock |-> r.clock]
    ELSE MaxLoop(cx, my_h, my_b, opp_h, opp_b, depth, moves, i + 1,
                 FloatMax(val, r.v), FloatMax(alpha, FloatMax(val, r.v)), beta, r.clock)

\* the loop of the maximizing ply from moves[i] on
MaxLoop(cx, my_h, my_b, opp_h, opp_b, depth, moves, i, val, alpha, beta, clock) ==
    IF i > Len(moves) THEN [v |-> val, clock |-> clock]
    ELSE LET nxt == simulate_step(my_h, my_b, moves[i])
         IN IF \/ ~InBounds(nxt[1])
               \/ nxt[1] \in SeqToSet(Tail1(nxt[2]))
               \/ (Len(opp_b) > 0 /\ nxt[1] \in SeqToSet(opp_b))
            THEN MaxLoop(cx, my_h, my_b, opp_h, opp_b, depth, moves, i + 1,
                         val, alpha, beta, clock)
            ELSE MaxStep(cx, my_h, my_b, opp_h, opp_b, depth, moves, i, val, alpha, beta,
                         minimax(cx, nxt[1], nxt[2], opp_h, opp_b, depth - 1,
                                 alpha, beta, FALSE, clock))

\* the minimizing ply cutting as soon as its value is within beta
MinStepEarlyCut(cx, my_h, my_b, opp_h, opp_b, depth, moves, i, val, alpha, beta, r) ==
    IF ~FloatLess(beta, FloatMin(val, r.v))
    THEN [v |-> FloatMin(val, r.v), clock |-> r.clock]
    ELSE MinLoop(cx, my_h, my_b, opp_h, opp_b, depth, moves, i + 1,
                 FloatMin(val, r.v), alpha, FloatMin(beta, FloatMin(val, r.v)), r.clock)

\* lines 770-773
MinStep(cx, my_h, my_b, opp_h, opp_b, depth, moves, i, val, alpha, beta, r) ==
    IF ~FloatLess(alpha, FloatMin(beta, FloatMin(val, r.v)))
    THEN [v |-> FloatMin(val, r.v), clock |-> r.clock]
    ELSE MinLoop(cx, my_h, my_b, opp_h, opp_b, depth, moves, i + 1,
                 FloatMin(val, r.v), alpha, FloatMin(beta, FloatMin(val, r.v)), r.clock)

\* the loop of the minimizing ply from moves[i] on
MinLoop(cx, my_h, my_b, opp_h, opp_b, depth, moves, i, val, alpha, beta, clock) ==
    IF i > Len(moves) THEN [v |-> val, clock |-> clock]
    ELSE LET nxt == simulate_step(opp_h, opp_b, moves[i])
         IN IF \/ ~InBounds(nxt[1])
               \/ nxt[1] \in SeqToSet(Tail1(nxt[2]))
            THEN MinLoop(cx, my_h, my_b, opp_h, opp_b, depth, moves, i + 1,
                         val, alpha, beta, clock)
            ELSE MinStep(cx, my_h, my_b, opp_h, opp_b, depth, moves, i, val, alpha, beta,
                         IF nxt[1] \in SeqToSet(my_b)
                         THEN [v |-> SCORE_OPP_HITS_BODY, clock |-> clock]
                         ELSE minimax(cx, my_h, my_b, nxt[1], nxt[2], depth - 1,
                                      alpha, beta, TRUE, clock))

\* lines 729-732, 755-759: the returns of heuristic(...): time over, depth 0,
\* and in the minimizing ply no opponent head or no opponent move
IsLeaf(cx, my_h, my_b, opp_h, opp_b, depth, maximizing_player, clock) ==
    \/ TimeOver(cx, clock)
    \/ depth = 0
    \/ /\ ~maximizing_player
       /\ \/ opp_h = NoneVal
          \/ Len(predict_opponent_moves(cx, opp_h, opp_b, my_b)) = 0

\* lines 736-738: the moves of the maximizing ply
MaxPly(cx, my_h, my_b, opp_h, opp_b, depth, alpha, beta, clock, moves) ==
    IF Len(moves) = 0 THEN [v |-> SCORE_NO_MOVES, clock |-> clock + 1]
    ELSE MaxLoop(cx, my_h, my_b, opp_h, opp_b, depth, moves, 1,
                 SCORE_NEG_INF, alpha, beta, clock + 1)

minimax(cx, my_h, my_b, opp_h, opp_b, depth, alpha, beta, maximizing_player, clock) ==
    IF IsLeaf(cx, my_h, my_b, opp_h, opp_b, depth, maximizing_player, clock)
    THEN [v |-> heuristic(cx, my_h, my_b, opp_h, opp_b), clock |-> clock + 1]
    ELSE IF maximizing_player
    THEN MaxPly(cx, my_h, my_b, opp_h, opp_b, depth, alpha, beta, clock,
                available_moves_from(my_h, my_b, opp_b))
    ELSE MinLoop(cx, my_h, my_b, opp_h, opp_b, depth,
                 predict_opponent_moves(cx, opp_h, opp_b, my_b), 1,
                 SCORE_POS_INF, alpha, beta, clock + 1)

OppLive(opponent) == opponent.present /\ opponent.alive

Context(s, time_budget) ==
    [food_list |-> s.food, traps_set |-> SeqToSet(s.traps),
     opponent |-> s.opponent, budget |-> time_budget]

\* returns [v, clock]: the score and the clock after the call.  The except
\* of lines 778-779 has no case: nothing the search runs raises (the heads
\* and bodies it indexes are never empty, the divisors of lines 683, 690 and
\* 702 are at least 1)
minimax_score(s, time_budget, first_move, depth, clock) ==
    LET opp_head == IF OppLive(s.opponent) THEN s.opponent.segments[1] ELSE NoneVal
        opp_body == IF OppLive(s.opponent) THEN s.opponent.segments ELSE <<>>
        stepped == simulate_step(s.snake.segments[1], s.snake.segments, first_move)
        my_head == stepped[1]
        my_body == stepped[2]
    IN IF ~InBounds(my_head) THEN [v |-> SCORE_DEAD, clock |-> clock]
       ELSE IF my_head \in SeqToSet(Tail1(my_body)) THEN [v |-> SCORE_DEAD, clock |-> clock]
       ELSE IF Len(opp_body) > 0 /\ my_head \in SeqToSet(opp_body)
            THEN [v |-> SCORE_DEAD, clock |-> clock]
       ELSE IF my_head \in SeqToSet(s.traps) /\ s.snake.shield_timer <= 0
            THEN [v |-> SCORE_TRAP, clock |-> clock]
       ELSE minimax(Context(s, time_budget), my_head, my_body, opp_head, opp_body,
                    depth, SCORE_NEG_INF, SCORE_POS_INF, TRUE, clock)

(***************************************************************************)
(* bot.py: UserBot.decide_move.  A snapshot s is                           *)
(*   [snake |-> [segments, direction, score, shield_timer, alive],         *)
(*    food |-> food.positions, opponent |-> NoSnake or                     *)
(*    [present, segments, direction, alive], traps |-> traps.positions]    *)
(* (traps=None and a Trap with no positions take the same branches and are *)
(* both the empty sequence).  decide_plan is the deterministic part of the *)
(* call; decide_result adds the draws of random.random() and of            *)
(* random.choice.                                                          *)
(***************************************************************************)
AllMoves == <<RIGHT, LEFT, UP, DOWN>>

\* decide_move without the filter of line 509
possible_moves_all(current_dir) == AllMoves

possible_moves(current_dir) ==
    SelectSeq(AllMoves, LAMBDA m : m # opposite(current_dir))

OnTrap(nh, traps) == \E i \in 1 .. Len(traps) : nh = traps[i]

\* lines 511-517 without the trap test of lines 515-516
first_safe_moves_on_traps(s) ==
    SelectSeq(possible_moves(s.snake.direction),
              LAMBDA m : is_safe(s.snake.segments, Step(s.snake.segments[1], m), s.opponent))

first_safe_moves(s) ==
    SelectSeq(possible_moves(s.snake.direction),
              LAMBDA m : /\ is_safe(s.snake.segments, Step(s.snake.segments[1], m), s.opponent)
                         /\ ~OnTrap(Step(s.snake.segments[1], m), s.traps))

inbounds_moves(s) ==
    SelectSeq(possible_moves(s.snake.direction),
              LAMBDA m : InBounds(Step(s.snake.segments[1], m)))

safe_moves(s) ==
    IF Len(first_safe_moves(s)) = 0 THEN inbounds_moves(s) ELSE first_safe_moves(s)

astar_obstacles(s) ==
    SeqToSet(Tail1(s.snake.segments))
    \cup (IF OppLive(s.opponent) THEN SeqToSet(s.opponent.segments) ELSE {})
    \cup SeqToSet(s.traps)

RECURSIVE BestPathLoop(_, _, _, _, _)
BestPathLoop(head, foods_sorted, obstacles, i, best) ==
    IF i > Len(foods_sorted) THEN best
    ELSE LET path == astar(head, foods_sorted[i], obstacles, max_astar_nodes)
         IN BestPathLoop(head, foods_sorted, obstacles, i + 1,
                         IF Len(path) > 0 /\ (Len(best) = 0 \/ Len(path) < Len(best))
                         THEN path ELSE best)

best_af_path(s) ==
    LET head == s.snake.segments[1]
        foods_sorted == FirstN(SortedBy(s.food,
                                        [i \in 1 .. Len(s.food) |->
                                            get_distance(head, s.food[i])]), 6)
    IN BestPathLoop(head, foods_sorted, astar_obstacles(s), 1, <<>>)

InSeq(x, seq) == \E i \in 1 .. Len(seq) : seq[i] = x

\* lines 547-553: the first step of the A* path, scored at depth 2
follow_path(s, time_budget, path, move_to_follow) ==
    IF Len(path) > 1 /\ InSeq(move_to_follow, safe_moves(s))
    THEN [tried |-> TRUE, move |-> move_to_follow,
          r |-> minimax_score(s, time_budget, move_to_follow, 2, 0)]
    ELSE [tried |-> FALSE]

first_step(head, path) ==
    IF Len(path) > 1 THEN <<path[2][1] - head[1], path[2][2] - head[2]>> ELSE NoneVal

follow_step(s, time_budget) ==
    follow_path(s, time_budget, best_af_path(s),
                first_step(s.snake.segments[1], best_af_path(s)))

\* lines 557-560: the scores of the candidates, in order, until the budget
\* check breaks the loop
RECURSIVE ScoreLoop(_, _, _, _, _, _)
RECURSIVE ScoreStep(_, _, _, _, _, _)
ScoreStep(s, time_budget, moves, i, acc, r) ==
    ScoreLoop(s, time_budget, moves, i + 1, r.clock,
              Append(acc, [move |-> moves[i], v |-> r.v]))

ScoreLoop(s, time_budget, moves, i, clock, acc) ==
    IF i > Len(moves) THEN acc
    ELSE IF TimeOver(Context(s, time_budget), clock) THEN acc
    ELSE ScoreStep(s, time_budget, moves, i, acc,
                   minimax_score(s, time_budget, moves[i], max_minimax_depth, clock + 1))

\* lines 525-560 once safe_moves and the A* follow are known
plan_after_follow(s, time_budget, safe, possible, f) ==
    IF Len(safe) = 0
    THEN [path |-> "early",
          move |-> IF Len(possible) > 0 THEN possible[1] ELSE RIGHT]
    ELSE IF f.tried /\ FloatLess(SCORE_NO_MOVES, f.r.v)
    THEN [path |-> "astar", move |-> f.move]
    ELSE [path |-> "loop", safe |-> safe,
          followed |-> IF f.tried THEN <<f.move>> ELSE <<>>,
          scores |-> ScoreLoop(s, time_budget, safe, 1,
                               IF f.tried THEN f.r.clock ELSE 0, <<>>)]

decide_plan(s, time_budget) ==
    plan_after_follow(s, time_budget, safe_moves(s),
                      possible_moves(s.snake.direction), follow_step(s, time_budget))

\* lines 555-564 after the scoring: the first candidate whose jittered score
\* is greater than every earlier one's and not less than any later one's
RECURSIVE BestLoop(_, _, _, _, _)
BestLoop(scores, jitter, i, best_move, best_score) ==
    IF i > Len(scores) THEN best_move
    ELSE LET score == AddJitter(scores[i].v, jitter[i])
         IN IF FloatLess(best_score, score)
            THEN BestLoop(scores, jitter, i + 1, scores[i].move, score)
            ELSE BestLoop(scores, jitter, i + 1, best_move, best_score)

MovesOf(scores) == [i \in 1 .. Len(scores) |-> scores[i].move]

\* decide_move without the fallback of lines 566-567
decide_result_no_fallback(plan, jitter, choice) ==
    IF plan.path = "early" THEN [move |-> plan.move, via |-> "early", scored |-> <<>>]
    ELSE IF plan.path = "astar"
    THEN [move |-> plan.move, via |-> "astar", scored |-> <<plan.move>>]
    ELSE [move |-> BestLoop(plan.scores, jitter, 1, NoneVal, SCORE_NEG_INF),
          via |-> "minimax", scored |-> plan.followed \o MovesOf(plan.scores)]

\* decide_move drawing its fallback from all four moves instead of safe_moves
decide_result_any_move(plan, jitter, choice) ==
    IF plan.path = "early" THEN [move |-> plan.move, via |-> "early", scored |-> <<>>]
    ELSE IF plan.path = "astar"
    THEN [move |-> plan.move, via |-> "astar", scored |-> <<plan.move>>]
    ELSE LET best_move == BestLoop(plan.scores, jitter, 1, NoneVal, SCORE_NEG_INF)
         IN IF best_move = NoneVal
            THEN [move |-> AllMoves[choice], via |-> "random",
                  scored |-> plan.followed \o MovesOf(plan.scores)]
            ELSE [move |-> best_move, via |-> "minimax",
                  scored |-> plan.followed \o MovesOf(plan.scores)]

\* jitter[i] is random.random() * randomness of the i-th scored candidate,
\* choice the index random.choice draws
decide_result(plan, jitter, choice) ==
    IF plan.path = "early" THEN [move |-> plan.move, via |-> "early", scored |-> <<>>]
    ELSE IF plan.path = "astar"
    THEN [move |-> plan.move, via |-> "astar", scored |-> <<plan.move>>]
    ELSE LET best_move == BestLoop(plan.scores, jitter, 1, NoneVal, SCORE_NEG_INF)
         IN IF best_move = NoneVal
            THEN [move |-> plan.safe[choice], via |-> "random",
                  scored |-> plan.followed \o MovesOf(plan.scores)]
            ELSE [move |-> best_move, via |-> "minimax",
                  scored |-> plan.followed \o MovesOf(plan.scores)]

\* the greatest multiple of a score's ulp below the randomness 0.02
JitterTop == <<20971, 558345748>>

\* random.random() * randomness lies in [0, randomness)
JitterSet(rnd) == IF rnd = 0 THEN {FloatZero} ELSE {FloatZero, JitterTop}

decide_outcomes(plan, rnd) ==
    IF plan.path # "loop" THEN {decide_result(plan, <<>>, 1)}
    ELSE {decide_result(plan, jitter, choice) :
             jitter \in [1 .. Len(plan.scores) -> JitterSet(rnd)],
             choice \in 1 .. Len(plan.safe)}

(***************************************************************************)
(* Input families: the snakes the game can hold are self-avoiding paths of *)
(* 4-connected cells, head first.                                          *)
(***************************************************************************)
Adjacent(a, b) ==
    \/ a[1] = b[1] /\ (a[2] - b[2] = 1 \/ b[2] - a[2] = 1)
    \/ a[2] = b[2] /\ (a[1] - b[1] = 1 \/ b[1] - a[1] = 1)

RECURSIVE PathsOfLen(_)
PathsOfLen(n) ==
    IF n = 1 THEN {<<c>> : c \in Cells}
    ELSE UNION {{Append(p, c) : c \in {d \in Cells : Adjacent(p[Len(p)], d)
                                                    /\ d \notin SeqToSet(p)}}
                : p \in PathsOfLen(n - 1)}

Paths(maxlen) == UNION {PathsOfLen(n) : n \in 1 .. maxlen}

RECURSIVE SubsetsUpTo(_, _)
SubsetsUpTo(S, k) ==
    IF k = 0 THEN {{}}
    ELSE LET P == SubsetsUpTo(S, k - 1)
         IN P \cup {s \cup {c} : s \in P, c \in S}

NoneOrOne(S) == {<<>>} \cup {<<c>> : c \in S}

NextTo(head) == {c \in Cells : Adjacent(head, c)}

OtherSnakes(maxlen) == {[present |-> TRUE, segments |-> s] : s \in Paths(maxlen)}

(***************************************************************************)
(* SpecSafe, SpecFlood, SpecAstar: one call of a pure function on         *)
(* arguments drawn from the bounded families.                              *)
(***************************************************************************)
NodeBudgets(default) == {1, MaxNodeBudget, default}

BotIdle ==
    /\ snap = NoneVal /\ snap0 = NoneVal /\ budget = 0 /\ randomness = 0
    /\ results = <<>>

GameIdle ==
    /\ snake1 = NoneVal /\ snake2 = NoneVal /\ crashed = FALSE /\ resolved = FALSE
    /\ food_positions = {} /\ trap_positions = {} /\ frame = NoneVal

FnIdle == fn = "none" /\ args = NoneVal /\ out = NoneVal

\* the cells decide_move asks about are the four neighbours of the head
InitSafe ==
    /\ fn = "is_safe" /\ out = NoneVal
    /\ \E s \in Paths(MaxOppLen), m \in {RIGHT, LEFT, UP, DOWN},
          o \in {NoSnake} \cup OtherSnakes(MaxOppLen) :
          args = [segments |-> s, new_head_pos |-> Step(s[1], m), other |-> o]
    /\ BotIdle /\ GameIdle

\* the fill starts at the head of the body, as the engine calls it, or in
\* the corner; the other body is empty or one cell next to the start
InitFlood ==
    /\ fn = "flood_fill" /\ out = NoneVal
    /\ \E s \in Paths(MaxFnLen), n \in NodeBudgets(max_bfs_nodes) :
       \E c \in {s[1], <<0, 0>>} :
       \E o \in NoneOrOne(NextTo(c)) :
          args = [head_pos |-> c, my_segments |-> s, other_segments |-> o,
                  max_nodes |-> n]
    /\ BotIdle /\ GameIdle

\* up to MaxObstacles obstacles around the target, fewer anywhere
InitAstar ==
    /\ fn = "astar" /\ out = NoneVal
    /\ \E a \in Cells, b \in Cells, n \in NodeBudgets(max_astar_nodes) :
       \E ob \in SubsetsUpTo(Cells, MaxObstacles - 1)
                  \cup SubsetsUpTo(NextTo(b), MaxObstacles) :
          args = [start |-> a, target |-> b, obstacles |-> ob, max_nodes |-> n]
    /\ BotIdle /\ GameIdle

CallIsSafe ==
    /\ fn = "is_safe" /\ out = NoneVal
    /\ out' = [ret |-> is_safe(args.segments, args.new_head_pos, args.other)]
    /\ UNCHANGED <<fn, args, botVars, gameVars>>

CallFloodFill ==
    /\ fn = "flood_fill" /\ out = NoneVal
    /\ out' = flood_fill_run(args.head_pos, args.my_segments, args.other_segments,
                             args.max_nodes)
    /\ UNCHANGED <<fn, args, botVars, gameVars>>

CallAstar ==
    /\ fn = "astar" /\ out = NoneVal
    /\ out' = astar_run(args.start, args.target, args.obstacles, args.max_nodes)
    /\ UNCHANGED <<fn, args, botVars, gameVars>>

SpecSafe == InitSafe /\ [][CallIsSafe]_vars

SpecFlood == InitFlood /\ [][CallFloodFill]_vars

SpecAstar == InitAstar /\ [][CallAstar]_vars

(***************************************************************************)
(* Claims about the pure functions.                                        *)
(***************************************************************************)
Called(f) == fn = f /\ out # NoneVal

\* C6: is_safe(snake, candidate_head, opponent) is true if and only if the
\* candidate is inside the grid, equals none of the snake's non-head segments
\* and equals none of the opponent's segments, head included; the opponent
\* condition is dropped when no opponent is passed.
C6_IsSafeIff ==
    Called("is_safe") =>
        (out.ret <=>
            /\ args.new_head_pos \in Cells
            /\ args.new_head_pos \notin SeqToSet(Tail1(args.segments))
            /\ (args.other = NoSnake
                \/ args.new_head_pos \notin SeqToSet(args.other.segments)))

\* the candidate is the opponent's head, free otherwise: rejected
C6_Witness ==
    /\ Called("is_safe")
    /\ args.other # NoSnake
    /\ args.new_head_pos = args.other.segments[1]
    /\ args.new_head_pos \in Cells
    /\ args.new_head_pos \notin SeqToSet(args.segments)
    /\ Len(args.segments) > 1
    /\ out.ret = FALSE

\* C7: for every start cell, own body, other body and node budget n >= 1,
\* _flood_fill_area returns at most n and its loop pops at most n cells.
C7_FloodBounded ==
    Called("flood_fill") =>
        (out.count <= args.max_nodes /\ out.nodes <= args.max_nodes)

\* cells the fill visits with an unlimited budget: the start cell and every
\* free cell joined to it by free cells
FreeCell(c, obstacles) == c \in Cells /\ c \notin obstacles

RECURSIVE Closure(_, _)
Closure(S, obstacles) ==
    LET T == S \cup {c \in Cells : FreeCell(c, obstacles)
                                   /\ \E d \in S : Adjacent(c, d)}
    IN IF T = S THEN S ELSE Closure(T, obstacles)

FloodObstacles == SeqToSet(args.my_segments) \cup SeqToSet(args.other_segments)

Visited == Closure({args.head_pos}, FloodObstacles)

\* the free cells (in bounds, in neither body) 4-connected to the start
ConnectedFree == {c \in Visited : FreeCell(c, FloodObstacles)}

\* the budget cut the fill short: the region is larger than the budget
C7_Witness ==
    /\ Called("flood_fill")
    /\ args.max_nodes > 1
    /\ Cardinality(Visited) > args.max_nodes
    /\ out.count = args.max_nodes
    /\ out.nodes = args.max_nodes

\* C8 as stated: when the region of free cells connected to the start is
\* smaller than the node budget, the result is the number of those free cells.
C8_Original ==
    (Called("flood_fill") /\ Cardinality(ConnectedFree) < args.max_nodes) =>
        out.count = Cardinality(ConnectedFree)

\* C8 amended: when the region of free cells connected to the start is smaller
\* than the node budget, the result is the number of cells visited: the start
\* cell, counted also when it lies in own body or other body, and the free
\* cells connected to it.
C8_FloodExact ==
    (Called("flood_fill") /\ Cardinality(ConnectedFree) < args.max_nodes) =>
        out.count = Cardinality(ConnectedFree \cup {args.head_pos})

\* the corner: start (0,0), own body on (1,0) and (0,1), only the start counted
C8_Witness ==
    /\ Called("flood_fill")
    /\ args.head_pos = <<0, 0>>
    /\ {<<1, 0>>, <<0, 1>>} \subseteq SeqToSet(args.my_segments)
    /\ args.max_nodes = max_bfs_nodes
    /\ out.count = 1

Manhattan(a, b) ==
    (IF a[1] > b[1] THEN a[1] - b[1] ELSE b[1] - a[1])
    + (IF a[2] > b[2] THEN a[2] - b[2] ELSE b[2] - a[2])

\* C9: on a grid with no obstacles and a node budget that is not hit, _astar
\* returns for every in-bounds start and target a path whose number of steps
\* (cells minus one) is the Manhattan distance between start and target.
C9_AstarManhattan ==
    (Called("astar") /\ args.obstacles = {} /\ args.max_nodes = max_astar_nodes) =>
        (Len(out.path) >= 1 /\ Len(out.path) - 1 = Manhattan(args.start, args.target))

\* a path between two opposite corners of the open grid
C9_Witness ==
    /\ Called("astar")
    /\ args.obstacles = {}
    /\ args.max_nodes = max_astar_nodes
    /\ args.start = <<0, 0>>
    /\ args.target = <<GRID_WIDTH - 1, GRID_HEIGHT - 1>>
    /\ Len(out.path) = GRID_WIDTH + GRID_HEIGHT - 1

(***************************************************************************)
(* SpecBot: decide_move called twice on the same snapshot.  The snapshots  *)
(* are a union of scenes around a snake whose head is in the top-left      *)
(* quarter of the grid, next to or one step from two walls: food in a      *)
(* corner and a trap next to the head, jitter, a time budget that runs     *)
(* out, an opponent whose head is next to the head.                        *)
(***************************************************************************)
shield_duration == 2

\* a live snake's direction is the step that brought its head where it is;
\* a snake of one segment may head anywhere.  Snake.update sets direction
\* (line 119) before the wall test (lines 128-131), so a snake the wall
\* killed may also head out of the grid, any way but back
Directions(segments, alive) ==
    IF Len(segments) = 1 THEN {RIGHT, LEFT, UP, DOWN}
    ELSE LET last == <<segments[1][1] - segments[2][1], segments[1][2] - segments[2][2]>>
         IN {last}
            \cup (IF alive THEN {}
                  ELSE {d \in {RIGHT, LEFT, UP, DOWN} :
                           d # opposite(last) /\ ~InBounds(Step(segments[1], d))})

HeadCells == {c \in Cells : c[1] <= 1 /\ c[2] <= 1}

BotSnakes(maxlen, shields) ==
    UNION {{[segments |-> p, direction |-> d, score |-> 0, shield_timer |-> sh, alive |-> TRUE] :
               d \in Directions(p, TRUE), sh \in shields} :
           p \in {q \in Paths(maxlen) : q[1] \in HeadCells}}

Corners ==
    {<<0, 0>>, <<GRID_WIDTH - 1, 0>>, <<0, GRID_HEIGHT - 1>>,
     <<GRID_WIDTH - 1, GRID_HEIGHT - 1>>}

\* opponents of up to MaxOppLen segments with their head next to the head
OpponentsNear(head) ==
    UNION {UNION {{[present |-> TRUE, segments |-> p, direction |-> d, alive |-> a] :
                      d \in Directions(p, a)} : a \in BOOLEAN} :
           p \in {q \in Paths(MaxOppLen) : Adjacent(head, q[1])}}

WellFormed(s) ==
    /\ s.snake.direction \in Directions(s.snake.segments, s.snake.alive)
    /\ SeqToSet(s.food) \cap SeqToSet(s.snake.segments) = {}
    /\ SeqToSet(s.traps) \cap SeqToSet(s.snake.segments) = {}
    /\ SeqToSet(s.traps) \cap SeqToSet(s.food) = {}
    /\ s.opponent.present =>
          /\ s.opponent.direction \in Directions(s.opponent.segments, s.opponent.alive)
          /\ SeqToSet(s.opponent.segments) \cap SeqToSet(s.snake.segments) = {}
          /\ SeqToSet(s.opponent.segments) \cap SeqToSet(s.food) = {}

Snapshot(sn, f, o, t) == [snake |-> sn, food |-> f, opponent |-> o, traps |-> t]

\* food in a corner and a trap next to the head, unlimited time, no jitter
InitTrapScene ==
    \E sn \in BotSnakes(MaxLen, {0, shield_duration}), f \in NoneOrOne(Corners) :
      \E t \in NoneOrOne(NextTo(sn.segments[1])) :
        /\ snap = Snapshot(sn, f, NoSnake, t)
        /\ budget = NoLimit /\ randomness = 0

\* food in a corner and a trap next to the head of a snake of up to
\* MaxOppLen segments, no time at all, no jitter
InitTrapRushScene ==
    \E sn \in BotSnakes(MaxOppLen, {0, shield_duration}), f \in NoneOrOne(Corners) :
      \E t \in NextTo(sn.segments[1]) :
        /\ snap = Snapshot(sn, f, NoSnake, <<t>>)
        /\ budget = <<0>> /\ randomness = 0

\* food in a corner, unlimited time, jitter
InitJitterScene ==
    \E sn \in BotSnakes(MaxOppLen, {0}), f \in NoneOrOne(Corners) :
        /\ snap = Snapshot(sn, f, NoSnake, <<>>)
        /\ budget = NoLimit /\ randomness = default_randomness

\* food in a corner, the time runs out after 0 .. MaxBudget checks
InitBudgetScene ==
    \E sn \in BotSnakes(MaxOppLen, {0}), f \in NoneOrOne(Corners), b \in 0 .. MaxBudget :
        /\ snap = Snapshot(sn, f, NoSnake, <<>>)
        /\ budget = <<b>> /\ randomness = 0

\* an opponent, live or dead, next to the head
InitOpponentScene ==
    \E sn \in BotSnakes(MaxOppLen, {0}) :
      \E o \in OpponentsNear(sn.segments[1]) :
        /\ snap = Snapshot(sn, <<>>, o, <<>>)
        /\ budget = NoLimit /\ randomness = 0

\* a live opponent of MaxOppLen segments whose head is on the cell straight
\* ahead of a longer snake, food next to the head, unlimited time, no jitter
InitCriticalScene ==
    \E sn \in {q \in BotSnakes(MaxOppLen + 1, {0}) : Len(q.segments) > MaxOppLen} :
      \E o \in {q \in OpponentsNear(sn.segments[1]) :
                   /\ q.alive /\ Len(q.segments) = MaxOppLen
                   /\ q.segments[1] = Step(sn.segments[1], sn.direction)} :
        \E f \in NextTo(sn.segments[1]) :
          /\ snap = Snapshot(sn, <<f>>, o, <<>>)
          /\ budget = NoLimit /\ randomness = 0

InitBot ==
    /\ \/ InitTrapScene
       \/ InitJitterScene
       \/ InitBudgetScene
       \/ InitOpponentScene
       \/ InitCriticalScene
       \/ InitTrapRushScene
    /\ WellFormed(snap)
    /\ snap0 = snap
    /\ results = <<>>
    /\ FnIdle /\ GameIdle

\* lines 502-569: one call; the caller keeps the snapshot and calls again.
\* Every container the call writes is one it built (lines 517, 523, 577-601,
\* 608-626, 639, 658, 724); the searches work on the copies of lines 662-665
DecideMove ==
    /\ Len(results) < 2
    /\ \E o \in decide_outcomes(decide_plan(snap, budget), randomness) :
          results' = Append(results, o)
    /\ UNCHANGED <<snap, snap0, budget, randomness, fnVars, gameVars>>

SpecBot == InitBot /\ [][DecideMove]_vars

(***************************************************************************)
(* SpecRush: decide_move with a time budget of zero, where every check of  *)
(* the budget reports an overrun: snakes of MaxLen segments with an         *)
(* opponent, live or dead, next to the head, and snakes of up to MaxOppLen  *)
(* segments with a trap next to the head.                                   *)
(***************************************************************************)
\* a snake of MaxLen segments, an opponent next to its head, food in the far
\* corner, jitter
InitRushOpponentScene ==
    \E sn \in {q \in BotSnakes(MaxLen, {0}) : Len(q.segments) = MaxLen} :
      \E o \in OpponentsNear(sn.segments[1]) :
        /\ snap = Snapshot(sn, <<<<GRID_WIDTH - 1, GRID_HEIGHT - 1>>>>, o, <<>>)
        /\ randomness = default_randomness

\* a snake of up to MaxOppLen segments, food in a corner and a trap next to
\* the head, no jitter
InitRushTrapScene ==
    \E sn \in BotSnakes(MaxOppLen, {0}), f \in NoneOrOne(Corners) :
      \E t \in NoneOrOne(NextTo(sn.segments[1])) :
        /\ snap = Snapshot(sn, f, NoSnake, t)
        /\ randomness = 0

InitRush ==
    /\ InitRushOpponentScene \/ InitRushTrapScene
    /\ budget = <<0>>
    /\ WellFormed(snap)
    /\ snap0 = snap
    /\ results = <<>>
    /\ FnIdle /\ GameIdle

SpecRush == InitRush /\ [][DecideMove]_vars

(***************************************************************************)
(* SpecLastResort: the returns of decide_move that score no candidate.     *)
(* The random fallback of lines 566-567 is reached with a time budget of   *)
(* zero.  The return of line 526 needs an empty candidate list, and a head *)
(* inside the grid always has a candidate: it is reached only by the       *)
(* snapshots a caller can build in which the snake has stepped out of the  *)
(* grid, heading outwards.  The game passes no such snapshot (Snake.update *)
(* dies at lines 128-131 before it stores a head out of the grid); they    *)
(* are here because the claim is about them.                               *)
(***************************************************************************)
\* a snake of up to MaxLen segments in the grid, food in a corner, a trap
\* next to the head, no time at all
InitNoTimeScene ==
    \E sn \in BotSnakes(MaxLen, {0}), f \in NoneOrOne(Corners) :
      \E t \in NoneOrOne(NextTo(sn.segments[1])) :
        /\ snap = Snapshot(sn, f, NoSnake, t)
        /\ budget = <<0>>

\* the snakes whose head is one step out of the grid and whose other
\* segments, if any, are a path of the grid from the cell the head left
OutsideSnakes ==
    {[segments |-> <<Step(p[1], d)>> \o SubSeq(p, 1, n), direction |-> d, score |-> 0,
      shield_timer |-> 0, alive |-> TRUE] :
        p \in PathsOfLen(MaxOppLen), d \in {RIGHT, LEFT, UP, DOWN}, n \in 0 .. MaxOppLen}

InitOutsideScene ==
    \E sn \in {q \in OutsideSnakes : ~InBounds(q.segments[1])},
       f \in NoneOrOne(Corners), b \in {NoLimit, <<0>>} :
        /\ snap = Snapshot(sn, f, NoSnake, <<>>)
        /\ budget = b

InitLastResort ==
    /\ InitNoTimeScene \/ InitOutsideScene
    /\ randomness = 0
    /\ WellFormed(snap)
    /\ snap0 = snap
    /\ results = <<>>
    /\ FnIdle /\ GameIdle

SpecLastResort == InitLastResort /\ [][DecideMove]_vars

(***************************************************************************)
(* Claims about decide_move, checked under SpecBot unless said otherwise.  *)
(***************************************************************************)
UnitVectors == {RIGHT, LEFT, UP, DOWN}

Legal(move) == move \in UnitVectors /\ move # opposite(snap0.snake.direction)

HeadAfter(move) == Step(snap0.snake.segments[1], move)

\* C1: every move decide_move returns is one of the four unit vectors and is
\* not the reverse of the snake's direction, whatever the food, opponent,
\* traps and time budget.
C1_Legality == \A i \in 1 .. Len(results) : Legal(results[i].move)

\* a snake of one segment with the only food on the cell right behind it
C1_Witness ==
    /\ Len(results) > 0
    /\ Len(snap0.snake.segments) = 1
    /\ snap0.food = <<HeadAfter(opposite(snap0.snake.direction))>>
    /\ results[1].via = "minimax"

\* the head after the move is out of bounds, on the snake's own body or on a
\* segment of a live opponent
Fatal(move) ==
    \/ ~InBounds(HeadAfter(move))
    \/ HeadAfter(move) \in SeqToSet(Tail1(snap0.snake.segments))
    \/ /\ OppLive(snap0.opponent)
       /\ HeadAfter(move) \in SeqToSet(snap0.opponent.segments)

\* C2: with the time budget never exceeded, when some non-reverse move is not
\* fatal (in bounds, off the own body, off a live opponent), the returned
\* move is not fatal either; the moves that are only safe from walls and
\* snakes because they step on a trap count as not fatal.
C2_SafetyPreference ==
    \A i \in 1 .. Len(results) :
        (/\ budget = NoLimit
         /\ \E m \in UnitVectors : m # opposite(snap0.snake.direction) /\ ~Fatal(m))
        => ~Fatal(results[i].move)

\* C4: with a time budget of zero, where every check of the budget reports
\* an overrun, decide_move returns (it has an outcome, so it neither loops
\* nor raises) and what it returns is a legal move.  Checked under SpecRush.
C4_ZeroBudget ==
    budget = <<0>> =>
        LET outcomes == decide_outcomes(decide_plan(snap, budget), randomness)
        IN /\ outcomes # {}
           /\ \A o \in outcomes : Legal(o.move)
           /\ \A i \in 1 .. Len(results) : Legal(results[i].move)

\* a snake of MaxLen segments with a live opponent next to its head: minimax
\* returned the heuristic at its first budget check, opponent terms and all,
\* and decide_move returned the step along the A* path
C4_Witness ==
    /\ budget = <<0>>
    /\ Len(results) > 0
    /\ Len(snap0.snake.segments) = MaxLen
    /\ OppLive(snap0.opponent)
    /\ Adjacent(snap0.snake.segments[1], snap0.opponent.segments[1])
    /\ results[1].via = "astar"

\* C5: with jitter disabled and the same time-budget outcomes, two calls of
\* decide_move on the same snapshot return the same move.
C5_Determinism ==
    (randomness = 0 /\ Len(results) = 2) => results[1].move = results[2].move

\* the snapshot is critical: the head of a live opponent is on a cell next
\* to the snake's head, the least distance two heads apart can have
Critical ==
    /\ OppLive(snap0.opponent)
    /\ Adjacent(snap0.snake.segments[1], snap0.opponent.segments[1])

\* a non-reverse move that is_safe accepts
SafeLegal(move) ==
    /\ Legal(move)
    /\ is_safe(snap0.snake.segments, HeadAfter(move), snap0.opponent)

\* the flood-fill area the snake reaches from its head after the move
AreaAfter(move) ==
    flood_fill_area(HeadAfter(move),
                    simulate_step(snap0.snake.segments[1], snap0.snake.segments, move)[2],
                    snap0.opponent.segments, max_bfs_nodes)

\* C16: in a critical snapshot decide_move returns, among the legal moves
\* that is_safe accepts, one with the largest flood-fill area after the move.
C16_EscapeWhenCritical ==
    \A i \in 1 .. Len(results) :
        (Critical /\ \E m \in UnitVectors : SafeLegal(m)) =>
            /\ SafeLegal(results[i].move)
            /\ \A m \in UnitVectors :
                  SafeLegal(m) => AreaAfter(results[i].move) >= AreaAfter(m)

\* line 526: possible_moves[0], the first of RIGHT, LEFT, UP, DOWN that is not
\* the reverse of the direction
LastResort(direction) == IF direction = LEFT THEN LEFT ELSE RIGHT

head_collision_penalty == 4
collision_segment_penalty == 2
min_snake_length == 5

\* lines 160-165, 169-173: the penalty of a head-to-head collision on one
\* snake: score, one tail segment above the minimum length, a shield
penalise(s) ==
    [s EXCEPT !.score = Max2(0, s.score - head_collision_penalty),
              !.segments = IF Len(s.segments) > min_snake_length
                           THEN ButLast(s.segments) ELSE s.segments,
              !.length = IF Len(s.segments) > min_snake_length
                         THEN s.length - 1 ELSE s.length,
              !.shield_timer = shield_duration]

Returned(self, other, ret) ==
    [self |-> self, other |-> other, ret |-> ret, raised |-> FALSE]

\* the first pass of the loop with the comparison of line 160 as >=
head_to_head_ge(self, other) ==
    IF self.score >= other.score THEN Returned(self, penalise(other), TRUE)
    ELSE IF other.score > self.score THEN Returned(penalise(self), other, TRUE)
    ELSE Returned(penalise(self), penalise(other), TRUE)

\* lines 159-189: the first pass of the loop; it returns at line 189
head_to_head(self, other) ==
    IF self.score > other.score THEN Returned(self, penalise(other), TRUE)
    ELSE IF other.score > self.score THEN Returned(penalise(self), other, TRUE)
    ELSE Returned(penalise(self), penalise(other), TRUE)

\* lines 192-202: the head on a body segment of the other snake; line 195
\* reads config.body_collision_penalty, which GameConfig does not have
\* (its field is bodey_collision_penalty): AttributeError
body_collision(self, other) ==
    IF self.segments[1] \in SeqToSet(Tail1(other.segments))
    THEN IF collision_segment_penalty > 0
         THEN [self |-> self, other |-> other, ret |-> FALSE, raised |-> TRUE]
         ELSE Returned(self, other, TRUE)
    ELSE Returned(self, other, FALSE)

check_collision_with_other(self, other) ==
    IF \/ Len(self.segments) = 0 \/ Len(other.segments) = 0
       \/ self.shield_timer > 0 \/ other.shield_timer > 0
    THEN Returned(self, other, FALSE)
    ELSE IF self.segments[1] = other.segments[1] /\ collision_segment_penalty > 0
    THEN head_to_head(self, other)
    ELSE body_collision(self, other)

(***************************************************************************)
(* SpecCollide: two live snakes at the end of a tick, then the resolution. *)
(* The snakes are coils: from the head, each next segment is the first     *)
(* free neighbour in a fixed order of preference.  Their scores are equal  *)
(* or one apart.                                                           *)
(***************************************************************************)
RECURSIVE Coil(_, _, _)
Coil(path, prefs, n) ==
    IF Len(path) = n THEN path
    ELSE LET last == path[Len(path)]
             free == {i \in 1 .. Len(prefs) :
                         /\ InBounds(Step(last, prefs[i]))
                         /\ Step(last, prefs[i]) \notin SeqToSet(path)}
         IN IF free = {} THEN path
            ELSE Coil(Append(path, Step(last, prefs[MinOf(free, 0)])), prefs, n)

\* snakes with no segment, some segments and collision_segment_penalty
\* segments to spare above the minimum length
CoilLengths ==
    {min_snake_length, MaxGameLen, min_snake_length + collision_segment_penalty}

Coils(prefs) ==
    {c \in {Coil(<<h>>, prefs, n) : h \in Cells, n \in CoilLengths} :
        Len(c) \in CoilLengths}

GameSnake(segments, score, shield) ==
    [segments |-> segments, length |-> Len(segments), score |-> score,
     shield_timer |-> shield, alive |-> TRUE]

InitCollide ==
    /\ \E c1 \in Coils(<<RIGHT, DOWN, LEFT, UP>>), c2 \in Coils(<<UP, LEFT, DOWN, RIGHT>>) :
       \E s1 \in 0 .. MaxScore :
       \E s2 \in {s \in 0 .. MaxScore : s - s1 \in -1 .. 1} :
       \E h1 \in {0, shield_duration}, h2 \in {0, shield_duration} :
          /\ snake1 = GameSnake(c1, s1, h1)
          /\ snake2 = GameSnake(c2, s2, h2)
    /\ snap0 = <<snake1, snake2>>
    /\ crashed = FALSE /\ resolved = FALSE
    /\ food_positions = {} /\ trap_positions = {} /\ frame = NoneVal
    /\ snap = NoneVal /\ budget = 0 /\ randomness = 0 /\ results = <<>>
    /\ FnIdle

\* main.py lines 146-149
CheckSnakeCollisions ==
    /\ ~resolved /\ ~crashed
    /\ IF snake1.alive /\ snake2.alive
       THEN LET r1 == check_collision_with_other(snake1, snake2)
                r2 == check_collision_with_other(r1.other, r1.self)
            IN IF r1.raised
               THEN /\ snake1' = r1.self /\ snake2' = r1.other
                    /\ crashed' = TRUE /\ resolved' = FALSE
               ELSE /\ snake1' = r2.other /\ snake2' = r2.self
                    /\ crashed' = r2.raised /\ resolved' = ~r2.raised
       ELSE /\ resolved' = TRUE
            /\ UNCHANGED <<snake1, snake2, crashed>>
    /\ UNCHANGED <<botVars, fnVars, food_positions, trap_positions, frame>>

SpecCollide == InitCollide /\ [][CheckSnakeCollisions]_vars

\* two live, unshielded snakes with equal scores and their heads on one cell
HeadToHeadTie ==
    /\ snap0[1].alive /\ snap0[2].alive
    /\ snap0[1].shield_timer = 0 /\ snap0[2].shield_timer = 0
    /\ snap0[1].score = snap0[2].score
    /\ snap0[1].segments[1] = snap0[2].segments[1]

\* C10: when two live, unshielded snakes with equal scores have their heads
\* on the same cell, the resolution of the tick takes the head-collision
\* penalty from both scores exactly once and leaves both with a shield.
C10_TieBothPenalised ==
    (resolved /\ HeadToHeadTie) =>
        /\ snake1.score = Max2(0, snap0[1].score - head_collision_penalty)
        /\ snake2.score = Max2(0, snap0[2].score - head_collision_penalty)
        /\ snake1.shield_timer = shield_duration
        /\ snake2.shield_timer = shield_duration

\* a tie at a score above the penalty, where taking it twice would show
C10_Witness ==
    /\ resolved /\ HeadToHeadTie
    /\ snap0[1].score > head_collision_penalty
    /\ snake1.score = snap0[1].score - head_collision_penalty
    /\ snake2.score = snake1.score

(***************************************************************************)
(* The frame of the game loop: SnakeGame.update with Snake.update,         *)
(* Snake.change_direction, Food.check_collision, Trap.check_collision and  *)
(* SnakeGame.check_collisions.  Time is in seconds; a frame lasts          *)
(* FrameTime, long enough for every live snake to move in every frame.     *)
(***************************************************************************)
SNAKE_SPEED == 10
trap_penalty == 2
trap_segment_penalty == 3
growth_per_food == 2
round_time == 55

FrameTime == 1
MaxFrames == 2

\* Snake.reset, lines 80-92, with the fields the frame reads and writes
Snake(segments, direction, grow, score, shield) ==
    [segments |-> segments, direction |-> direction, next_direction |-> direction,
     grow |-> grow, length |-> Len(segments), alive |-> TRUE, score |-> score,
     shield_timer |-> shield, self_collision |-> FALSE]

\* lines 94-95
get_head_position(s) == s.segments[1]

\* the test of line 207 made against next_direction
change_direction_against_next(s, new_dir) ==
    IF new_dir # opposite(s.next_direction) THEN [s EXCEPT !.next_direction = new_dir]
    ELSE s

\* lines 205-208
change_direction(s, new_dir) ==
    IF new_dir # opposite(s.direction) THEN [s EXCEPT !.next_direction = new_dir]
    ELSE s

\* lines 109-111
shield_tick(s, dt) ==
    IF s.shield_timer > 0 THEN [s EXCEPT !.shield_timer = @ - dt] ELSE s

\* lines 133-139 without the self-collision test of lines 142-146
move_in_grid_unchecked(s, new_head) ==
    [s EXCEPT !.segments = IF s.grow > 0 THEN <<new_head>> \o s.segments
                           ELSE <<new_head>> \o ButLast(s.segments),
              !.grow = IF s.grow > 0 THEN @ - 1 ELSE @,
              !.length = IF s.grow > 0 THEN @ + 1 ELSE @]

\* lines 133-147: the new head is in the grid
move_in_grid(s, new_head) ==
    LET segs == IF s.grow > 0 THEN <<new_head>> \o s.segments
                ELSE <<new_head>> \o ButLast(s.segments)
        hit == new_head \in SeqToSet(Tail1(segs))
    IN [s EXCEPT !.segments = segs,
                 !.grow = IF s.grow > 0 THEN @ - 1 ELSE @,
                 !.length = IF s.grow > 0 THEN @ + 1 ELSE @,
                 !.alive = ~hit,
                 !.self_collision = hit]

\* the move of lines 133-147 without the wall test of lines 128-131
move_through_wall(s) ==
    move_in_grid([s EXCEPT !.direction = s.next_direction],
                 Step(s.segments[1], s.next_direction))

\* lines 117-147: move_timer has reached the interval
move(s) ==
    IF ~InBounds(Step(s.segments[1], s.next_direction))
    THEN [s EXCEPT !.direction = s.next_direction, !.alive = FALSE]
    ELSE move_in_grid([s EXCEPT !.direction = s.next_direction],
                      Step(s.segments[1], s.next_direction))

\* lines 104-147; move_timer is 0 between frames, so the snake moves when
\* dt >= 1.0 / speed
Snake_update(s, dt) ==
    IF ~s.alive THEN s
    ELSE IF dt * SNAKE_SPEED >= 1 THEN move(shield_tick(s, dt))
    ELSE shield_tick(s, dt)

\* main.py lines 132-138, with Food.check_collision (lines 308-314) on the head
eat(s, food) ==
    IF s.alive /\ get_head_position(s) \in food
    THEN [s EXCEPT !.grow = @ + growth_per_food, !.score = @ + 1]
    ELSE s

eaten(s, food) ==
    IF s.alive /\ get_head_position(s) \in food
    THEN food \ {get_head_position(s)} ELSE food

\* the loop of lines 388-394 with the test of line 389 against one segment
\* in place of min_snake_length
RECURSIVE trap_segments_above_one(_, _)
trap_segments_above_one(s, n) ==
    IF n = 0 THEN s
    ELSE IF Len(s.segments) > 1
    THEN trap_segments_above_one(
             IF s.grow > 0
             THEN [s EXCEPT !.grow = @ - 1, !.length = @ - 1]
             ELSE [s EXCEPT !.segments = ButLast(@), !.length = @ - 1],
             n - 1)
    ELSE trap_segments_above_one(s, n - 1)

\* game_settings.py lines 388-394: the loop over trap_segment_penalty
RECURSIVE trap_segments(_, _)
trap_segments(s, n) ==
    IF n = 0 THEN s
    ELSE IF Len(s.segments) > min_snake_length
    THEN trap_segments(
             IF s.grow > 0
             THEN [s EXCEPT !.grow = @ - 1, !.length = @ - 1]
             ELSE [s EXCEPT !.segments = ButLast(@), !.length = @ - 1],
             n - 1)
    ELSE trap_segments(s, n - 1)

\* main.py lines 141-144 with Trap.check_collision, lines 379-403: the snake
\* after the call
trap_hit(s, traps) ==
    IF s.alive /\ get_head_position(s) \in traps
    THEN [trap_segments([s EXCEPT !.score = Max2(0, @ - trap_penalty)],
                        trap_segment_penalty)
             EXCEPT !.shield_timer = shield_duration]
    ELSE s

\* line 400: the trap that was hit is removed
traps_left(s, traps) ==
    IF s.alive /\ get_head_position(s) \in traps
    THEN traps \ {get_head_position(s)} ELSE traps

\* main.py lines 146-149 on the snakes t1, t2 left by the trap checks
collide(t1, t2) ==
    IF t1.alive /\ t2.alive
    THEN LET r1 == check_collision_with_other(t1, t2)
         IN IF r1.raised THEN [snake1 |-> r1.self, snake2 |-> r1.other, raised |-> TRUE]
            ELSE LET r2 == check_collision_with_other(r1.other, r1.self)
                 IN [snake1 |-> r2.other, snake2 |-> r2.self, raised |-> r2.raised]
    ELSE [snake1 |-> t1, snake2 |-> t2, raised |-> FALSE]

\* main.py lines 140-149 on the snakes f1, f2 left by the food checks
check_traps_then_snakes(f1, f2, traps) ==
    LET t1 == trap_hit(f1, traps)
        t2 == trap_hit(f2, traps_left(f1, traps))
    IN [trapped |-> <<t1, t2>>,
        traps |-> traps_left(f2, traps_left(f1, traps)),
        after |-> collide(t1, t2)]

\* main.py lines 129-149
check_collisions(a1, a2, food, traps) ==
    [fed |-> <<eat(a1, food), eat(a2, eaten(a1, food))>>,
     food |-> eaten(a2, eaten(a1, food)),
     rest |-> check_traps_then_snakes(eat(a1, food), eat(a2, eaten(a1, food)), traps)]

\* main.py lines 216-223: the survivor's advantage time has run out
advantage_over(u, other, expired) ==
    IF ~other.alive /\ u.alive /\ expired THEN [u EXCEPT !.alive = FALSE] ELSE u

\* main.py lines 233-240
check_round_end(n, s1, s2, food) ==
    \/ n * FrameTime >= round_time
    \/ ~s1.alive /\ ~s2.alive
    \/ food = {}

\* main.py lines 225-230 on the snakes a1, a2 left by the moves; line 270
\* of handle_round_end reads Snake.traps_hit, which no Snake has:
\* AttributeError
FrameEnd(dt, moves, expired, a1, a2, c) ==
    /\ snake1' = c.rest.after.snake1
    /\ snake2' = c.rest.after.snake2
    /\ food_positions' = c.food
    /\ trap_positions' = c.rest.traps
    /\ crashed' = (\/ c.rest.after.raised
                   \/ check_round_end(frame.n + 1, c.rest.after.snake1,
                                      c.rest.after.snake2, c.food))
    /\ frame' = [n |-> frame.n + 1, dt |-> dt, moves |-> moves,
                 expired |-> expired,
                 before |-> <<snake1, snake2>>,
                 food_before |-> food_positions,
                 traps_before |-> trap_positions,
                 moved |-> <<a1, a2>>,
                 fed |-> c.fed,
                 trapped |-> c.rest.trapped,
                 raised |-> c.rest.after.raised]

\* main.py lines 199-203, 210-214, 217-223: the outcomes of the test of the
\* survivor's advantage clock when `before` has become `dead`.  A
\* self-collision in this frame restarts the clock at the current time with
\* min(8.0, time_left), so the test passes only when no time is left; in
\* every other case the clock has run for a time the frames do not tell.
AdvantageExpired(before, dead, n, dt) ==
    IF before.alive /\ dead.self_collision THEN {n * dt >= round_time}
    ELSE BOOLEAN

\* main.py lines 193-223 on the snakes u1, u2 left by Snake.update
FrameMoved(dt, moves, u1, u2) ==
    \E expired \in (IF u1.alive = u2.alive THEN {FALSE}
                    ELSE IF u2.alive THEN AdvantageExpired(snake1, u1, frame.n + 1, dt)
                    ELSE AdvantageExpired(snake2, u2, frame.n + 1, dt)) :
        FrameEnd(dt, moves, expired,
                 advantage_over(u1, u2, expired),
                 advantage_over(u2, advantage_over(u1, u2, expired), expired),
                 check_collisions(
                     advantage_over(u1, u2, expired),
                     advantage_over(u2, advantage_over(u1, u2, expired), expired),
                     food_positions, trap_positions))

\* the bot's answer for a live snake; decide_move is not called for a dead one
BotMoves(s) == IF s.alive THEN SeqToSet(AllMoves) ELSE {s.next_direction}

\* main.py lines 179-230, SnakeGame.update in the state PLAYING
Frame ==
    /\ frame # NoneVal /\ ~crashed /\ frame.n < MaxFrames
    /\ \E m1 \in BotMoves(snake1), m2 \in BotMoves(snake2) :
          FrameMoved(FrameTime, <<m1, m2>>,
                     Snake_update(change_direction(snake1, m1), FrameTime),
                     Snake_update(change_direction(snake2, m2), FrameTime))
    /\ UNCHANGED <<botVars, fnVars, resolved>>

(***************************************************************************)
(* SpecGame: a round in play.  Food and traps lie where Food.spawn,        *)
(* Trap.spawn and generate_spawn_positions put them: off the border, no    *)
(* trap on a food cell or under a snake.  snake1 is a coil of              *)
(* one of the CoilLengths or of a single segment, snake2 a                 *)
(* single segment one or two steps from snake1's head, to its right or     *)
(* below it.  The food is on the interior cell farthest from the top-left  *)
(* corner.                                                                 *)
(***************************************************************************)
\* game_settings.py lines 284-287, 348-351, 435-441: random.randint(1, GRID_WIDTH - 2)
Interior ==
    {c \in Cells : /\ 1 <= c[1] /\ c[1] <= GRID_WIDTH - 2
                   /\ 1 <= c[2] /\ c[2] <= GRID_HEIGHT - 2}

\* the interior cell farthest from the top-left corner
FarInterior == <<GRID_WIDTH - 2, GRID_HEIGHT - 2>>

Snakes1 ==
    {Snake(c, IF Len(c) = 1 THEN RIGHT ELSE CHOOSE d \in Directions(c, TRUE) : TRUE,
           g, MaxScore, sh) :
        c \in {k \in Coils(<<RIGHT, DOWN, LEFT, UP>>) : k[1] \in HeadCells}
              \cup {<<h>> : h \in HeadCells},
        g \in {0, growth_per_food}, sh \in {0, shield_duration}}

Snakes2(head) ==
    {Snake(<<c>>, RIGHT, 0, sc, sh) :
        c \in {k \in Cells : /\ Manhattan(k, head) \in {1, 2}
                            /\ k[1] >= head[1] /\ k[2] >= head[2]},
        sc \in {1, MaxScore}, sh \in {0, shield_duration}}

InitGame ==
    /\ \E s1 \in Snakes1 :
       \E s2 \in Snakes2(s1.segments[1]) :
       \E f \in {FarInterior} :
       \E t \in NoneOrOne(Interior \cap NextTo(s1.segments[1])) :
          /\ get_head_position(s2) \notin SeqToSet(s1.segments)
          /\ (SeqToSet(s1.segments) \cup SeqToSet(s2.segments)) \cap {f} = {}
          /\ SeqToSet(t) \cap ({f} \cup SeqToSet(s1.segments) \cup SeqToSet(s2.segments)) = {}
          /\ snake1 = s1 /\ snake2 = s2
          /\ food_positions = {f}
          /\ trap_positions = SeqToSet(t)
    /\ frame = [n |-> 0]
    /\ crashed = FALSE /\ resolved = FALSE
    /\ BotIdle /\ FnIdle

SpecGame == InitGame /\ [][Frame]_vars

(***************************************************************************)
(* Claims on the rules of a frame.  frame.moved holds the two snakes as    *)
(* check_collisions found them, frame.fed after the food checks,           *)
(* frame.trapped after the trap checks.                                    *)
(***************************************************************************)
Played == frame # NoneVal /\ frame.n > 0

\* the traps Trap.check_collision found when it was called for snake i
TrapsSeen(i) ==
    IF i = 1 THEN frame.traps_before
    ELSE traps_left(frame.fed[1], frame.traps_before)

\* snake i was alive with its head on a trap when the trap check ran
OnTrapAtCheck(i) ==
    /\ Played
    /\ frame.fed[i].alive
    /\ get_head_position(frame.fed[i]) \in TrapsSeen(i)

\* C11: when a snake's head is on a trap cell and its shield_timer is
\* positive, the trap check changes neither its score nor its segments and
\* leaves the trap where it is.
C11_ShieldBlocksTrap ==
    \A i \in {1, 2} :
        (OnTrapAtCheck(i) /\ frame.fed[i].shield_timer > 0) =>
            /\ frame.trapped[i].score = frame.fed[i].score
            /\ frame.trapped[i].segments = frame.fed[i].segments
            /\ get_head_position(frame.fed[i]) \in trap_positions

\* snake i as the frame left it
Final(i) == IF i = 1 THEN snake1 ELSE snake2

\* when the snake collisions were checked, snake i was alive with its head
\* on a segment behind the head of the live snake j
HeadOnBody(i, j) ==
    /\ Played
    /\ frame.trapped[i].alive /\ frame.trapped[j].alive
    /\ get_head_position(frame.trapped[i])
           \in SeqToSet(Tail1(frame.trapped[j].segments))

\* C12: a live snake without an active shield whose head lands on a body
\* segment of the live opponent is dead after the frame.
C12_BodyCollisionKills ==
    \A i \in {1, 2} :
        (HeadOnBody(i, 3 - i) /\ frame.trapped[i].shield_timer <= 0) =>
            ~Final(i).alive

\* the frame asked the live snake i to move out of the grid
IntoWall(i) ==
    /\ Played
    /\ frame.before[i].alive
    /\ ~InBounds(Step(get_head_position(frame.before[i]),
                      change_direction(frame.before[i], frame.moves[i]).next_direction))

SameBody(s, t) ==
    /\ s.segments = t.segments
    /\ s.score = t.score
    /\ s.grow = t.grow

\* C13: a move whose new head is outside the grid sets alive to false and
\* leaves segments, score and pending growth as they were; from then on
\* nothing in that frame or a later one changes the dead snake's segments
\* or score.
C13_WallDeathIsTerminal ==
    \A i \in {1, 2} :
        /\ IntoWall(i) =>
              /\ ~frame.moved[i].alive
              /\ SameBody(frame.moved[i], frame.before[i])
        /\ (Played /\ ~frame.moved[i].alive) =>
              /\ ~Final(i).alive
              /\ SameBody(Final(i), frame.moved[i])
        /\ (Played /\ ~frame.before[i].alive) =>
              /\ ~Final(i).alive
              /\ SameBody(Final(i), frame.before[i])

\* snake1 ran into the wall in an earlier frame; in this frame the live
\* snake2 puts its head on a cell of the dead snake1
C13_Witness ==
    /\ Played /\ frame.n = MaxFrames
    /\ ~frame.before[1].alive /\ ~frame.before[1].self_collision
    /\ frame.before[2].alive /\ snake2.alive
    /\ get_head_position(snake2) \in SeqToSet(snake1.segments)
    /\ get_head_position(frame.before[2]) \notin SeqToSet(snake1.segments)

\* when the snake collisions were checked the two snakes were alive and
\* unshielded with their heads on one cell
HeadToHead ==
    /\ Played
    /\ frame.trapped[1].alive /\ frame.trapped[2].alive
    /\ frame.trapped[1].shield_timer <= 0 /\ frame.trapped[2].shield_timer <= 0
    /\ get_head_position(frame.trapped[1]) = get_head_position(frame.trapped[2])

\* a penalty took s to t: t is no shorter than s or min_snake_length, and
\* where s had no segment to spare t has the segments of s, the score less
\* the penalty (floored at 0) and the shield
PenaltyKeepsMinimum(s, t, penalty) ==
    /\ Len(t.segments) >= Min2(Len(s.segments), min_snake_length)
    /\ Len(s.segments) <= min_snake_length =>
          /\ t.segments = s.segments
          /\ t.score = Max2(0, s.score - penalty)
          /\ t.shield_timer = shield_duration

\* C14: no trap penalty and no head-to-head penalty shortens a snake below
\* min_snake_length; where the removal is skipped the score penalty, floored
\* at 0, and the shield are applied all the same.
C14_MinimumLength ==
    \A i \in {1, 2} :
        /\ Played => Len(Final(i).segments)
                        >= Min2(Len(frame.moved[i].segments), min_snake_length)
        /\ OnTrapAtCheck(i) =>
              PenaltyKeepsMinimum(frame.fed[i], frame.trapped[i], trap_penalty)
        /\ (HeadToHead /\ frame.trapped[i].score <= frame.trapped[3 - i].score) =>
              PenaltyKeepsMinimum(frame.trapped[i], Final(i), head_collision_penalty)

\* snake1 steps on a trap with exactly min_snake_length segments: it keeps
\* them all, pays the score penalty and gets the shield
C14_Witness ==
    /\ OnTrapAtCheck(1)
    /\ Len(frame.fed[1].segments) = min_snake_length
    /\ frame.fed[1].score >= trap_penalty
    /\ frame.trapped[1].segments = frame.fed[1].segments
    /\ frame.trapped[1].score = frame.fed[1].score - trap_penalty
    /\ frame.trapped[1].shield_timer = shield_duration

\* the rule of the snake collisions applies to the live snakes s1, s2:
\* neither is shielded and a head is on a segment of the other snake
Colliding(s1, s2) ==
    /\ s1.alive /\ s2.alive
    /\ s1.shield_timer <= 0 /\ s2.shield_timer <= 0
    /\ \/ get_head_position(s1) \in SeqToSet(s2.segments)
       \/ get_head_position(s2) \in SeqToSet(s1.segments)

\* C15: the snake collisions of a frame are decided on the segments and
\* shields the snakes had before the trap penalties of that frame: a
\* collision that exists before the trap checks is still found after them.
C15_CollisionsBeforePenalties ==
    Played =>
        (Colliding(frame.fed[1], frame.fed[2])
            => Colliding(frame.trapped[1], frame.trapped[2]))

(***************************************************************************)
(* SpecMinimax: one call of the closure minimax of _minimax_score with the *)
(* full window, as _minimax_score calls it at the root (maximizing) and as *)
(* the root calls it for its first child (minimizing).  The acting snake's *)
(* head is in the top-left quarter; the opponent is absent, or alive or    *)
(* dead with its head next to the acting snake's head, or a single segment *)
(* on the acting snake's body (a shielded snake crosses the other's body:  *)
(* line 150 of game_settings.py).  A dead opponent has no head and no body *)
(* in the search (lines 664-665).  The time budget is unlimited.           *)
(***************************************************************************)
MinimaxOpponents(my_b) ==
    {NoSnake}
    \cup {o \in OpponentsNear(my_b[1]) :
             /\ o.alive /\ Len(o.segments) \in {1, MaxOppLen}
             /\ SeqToSet(o.segments) \cap SeqToSet(my_b) = {}}
    \cup {o \in OpponentsNear(my_b[1]) :
             /\ ~o.alive /\ Len(o.segments) = MaxOppLen
             /\ SeqToSet(o.segments) \cap SeqToSet(my_b) = {}}
    \cup {[present |-> TRUE, segments |-> <<c>>, direction |-> RIGHT, alive |-> TRUE] :
             c \in SeqToSet(Tail1(my_b))}

\* the acting snake's body: a coil of up to MaxFnLen segments
MinimaxBodies ==
    {Coil(<<h>>, p, n) : h \in HeadCells, n \in 1 .. MaxFnLen,
                         p \in {<<LEFT, DOWN, RIGHT, UP>>, <<RIGHT, DOWN, LEFT, UP>>}}

MinimaxContext(a) ==
    [food_list |-> a.food, traps_set |-> {}, opponent |-> a.opponent, budget |-> NoLimit]

OppHead(a) == IF OppLive(a.opponent) THEN a.opponent.segments[1] ELSE NoneVal

OppBody(a) == IF OppLive(a.opponent) THEN a.opponent.segments ELSE <<>>

InitMinimax ==
    /\ fn = "minimax" /\ out = NoneVal
    /\ \E b \in MinimaxBodies :
       \E o \in MinimaxOpponents(b),
          f \in {<<>>, <<<<GRID_WIDTH - 1, GRID_HEIGHT - 1>>>>},
          d \in 1 .. max_minimax_depth, m \in BOOLEAN :
          args = [my_b |-> b, opponent |-> o, food |-> f, depth |-> d,
                  maximizing_player |-> m]
    /\ SeqToSet(args.food) \cap SeqToSet(args.my_b) = {}
    /\ args.opponent.present => SeqToSet(args.food) \cap SeqToSet(args.opponent.segments) = {}
    /\ BotIdle /\ GameIdle

\* line 777: minimax(head, body, opp_head, opp_body, depth, -inf, +inf, ...)
CallMinimax ==
    /\ fn = "minimax" /\ out = NoneVal
    /\ out' = minimax(MinimaxContext(args), args.my_b[1], args.my_b, OppHead(args),
                      OppBody(args), args.depth, SCORE_NEG_INF, SCORE_POS_INF,
                      args.maximizing_player, 0)
    /\ UNCHANGED <<fn, args, botVars, gameVars>>

SpecMinimax == InitMinimax /\ [][CallMinimax]_vars

(***************************************************************************)
(* Claims about the adversarial search.                                    *)
(***************************************************************************)
\* the opponent of the call has no legal move: every neighbour of its head
\* is out of bounds, on its own body or on the acting snake's body
OpponentTrapped ==
    /\ OppLive(args.opponent)
    /\ Len(available_moves_from(OppHead(args), OppBody(args), args.my_b)) = 0

StaticEvaluation ==
    heuristic(MinimaxContext(args), args.my_b[1], args.my_b, OppHead(args), OppBody(args))

\* C18: a minimizing ply with depth > 0 whose opponent has no legal move
\* returns the static evaluation of the position, whatever the opponent's
\* length.
C18_TrappedOpponentEvaluates ==
    (Called("minimax") /\ ~args.maximizing_player /\ args.depth > 0 /\ OpponentTrapped)
        => out.v = StaticEvaluation

\* the only move the search simulates for the opponent, (0, 0), leaves its
\* head on the acting snake's body: the test of line 766
OpponentRunsIntoBody ==
    /\ OpponentTrapped
    /\ Len(OppBody(args)) = 1
    /\ OppHead(args) \in SeqToSet(args.my_b)

\* C19: a minimizing ply in which the opponent's head runs into the acting
\* snake's body scores a positive value above the heuristic evaluation.
C19_OpponentDeathScoresHigh ==
    (Called("minimax") /\ ~args.maximizing_player /\ args.depth > 0 /\ OpponentRunsIntoBody)
        => (FloatLess(FloatZero, out.v) /\ FloatLess(StaticEvaluation, out.v))

(***************************************************************************)
(* The same depth-limited search without the cut: every move of every ply  *)
(* is searched; move generators, skips and leaves are those of minimax.    *)
(* The clock counts the calls, as in minimax.                              *)
(***************************************************************************)
RECURSIVE full_search(_, _, _, _, _, _, _, _)
RECURSIVE FullMaxLoop(_, _, _, _, _, _, _, _, _, _)
RECURSIVE FullMaxStep(_, _, _, _, _, _, _, _, _, _)
RECURSIVE FullMinLoop(_, _, _, _, _, _, _, _, _, _)
RECURSIVE FullMinStep(_, _, _, _, _, _, _, _, _, _)

FullMaxStep(cx, my_h, my_b, opp_h, opp_b, depth, moves, i, val, r) ==
    FullMaxLoop(cx, my_h, my_b, opp_h, opp_b, depth, moves, i + 1,
                FloatMax(val, r.v), r.clock)

FullMaxLoop(cx, my_h, my_b, opp_h, opp_b, depth, moves, i, val, clock) ==
    IF i > Len(moves) THEN [v |-> val, clock |-> clock]
    ELSE LET nxt == simulate_step(my_h, my_b, moves[i])
         IN IF \/ ~InBounds(nxt[1])
               \/ nxt[1] \in SeqToSet(Tail1(nxt[2]))
               \/ (Len(opp_b) > 0 /\ nxt[1] \in SeqToSet(opp_b))
            THEN FullMaxLoop(cx, my_h, my_b, opp_h, opp_b, depth, moves, i + 1, val, clock)
            ELSE FullMaxStep(cx, my_h, my_b, opp_h, opp_b, depth, moves, i, val,
                             full_search(cx, nxt[1], nxt[2], opp_h, opp_b, depth - 1,
                                         FALSE, clock))

FullMinStep(cx, my_h, my_b, opp_h, opp_b, depth, moves, i, val, r) ==
    FullMinLoop(cx, my_h, my_b, opp_h, opp_b, depth, moves, i + 1,
                FloatMin(val, r.v), r.clock)

FullMinLoop(cx, my_h, my_b, opp_h, opp_b, depth, moves, i, val, clock) ==
    IF i > Len(moves) THEN [v |-> val, clock |-> clock]
    ELSE LET nxt == simulate_step(opp_h, opp_b, moves[i])
         IN IF \/ ~InBounds(nxt[1])
               \/ nxt[1] \in SeqToSet(Tail1(nxt[2]))
            THEN FullMinLoop(cx, my_h, my_b, opp_h, opp_b, depth, moves, i + 1, val, clock)
            ELSE FullMinStep(cx, my_h, my_b, opp_h, opp_b, depth, moves, i, val,
                             IF nxt[1] \in SeqToSet(my_b)
                             THEN [v |-> SCORE_OPP_HITS_BODY, clock |-> clock]
                             ELSE full_search(cx, my_h, my_b, nxt[1], nxt[2], depth - 1,
                                              TRUE, clock))

FullMaxPly(cx, my_h, my_b, opp_h, opp_b, depth, clock, moves) ==
    IF Len(moves) = 0 THEN [v |-> SCORE_NO_MOVES, clock |-> clock + 1]
    ELSE FullMaxLoop(cx, my_h, my_b, opp_h, opp_b, depth, moves, 1,
                     SCORE_NEG_INF, clock + 1)

full_search(cx, my_h, my_b, opp_h, opp_b, depth, maximizing_player, clock) ==
    IF IsLeaf(cx, my_h, my_b, opp_h, opp_b, depth, maximizing_player, clock)
    THEN [v |-> heuristic(cx, my_h, my_b, opp_h, opp_b), clock |-> clock + 1]
    ELSE IF maximizing_player
    THEN FullMaxPly(cx, my_h, my_b, opp_h, opp_b, depth, clock,
                    available_moves_from(my_h, my_b, opp_b))
    ELSE FullMinLoop(cx, my_h, my_b, opp_h, opp_b, depth,
                     predict_opponent_moves(cx, opp_h, opp_b, my_b), 1,
                     SCORE_POS_INF, clock + 1)

FullSearch ==
    full_search(MinimaxContext(args), args.my_b[1], args.my_b, OppHead(args),
                OppBody(args), args.depth, args.maximizing_player, 0)

\* C20: with no budget overrun, minimax called at the root with the window
\* (-infinity, +infinity) returns the value of the search without cuts.
C20_AlphaBetaExact ==
    (Called("minimax") /\ args.maximizing_player) => out.v = FullSearch.v

\* a root call of depth 2 in which a cut skipped part of the tree: minimax
\* made fewer calls than the search without cuts
C20_Witness ==
    /\ Called("minimax") /\ args.maximizing_player
    /\ args.depth = max_minimax_depth
    /\ out.clock < FullSearch.clock

\* lines 739-746: the moves of the maximizing ply that reach the recursive
\* call, were no cut to end the loop before them
expanded_moves(my_h, my_b, opp_b) ==
    SelectSeq(available_moves_from(my_h, my_b, opp_b),
              LAMBDA m :
                  LET nxt == simulate_step(my_h, my_b, m)
                  IN /\ InBounds(nxt[1])
                     /\ nxt[1] \notin SeqToSet(Tail1(nxt[2]))
                     /\ ~(Len(opp_b) > 0 /\ nxt[1] \in SeqToSet(opp_b)))

\* the moves that can have brought the snake to its head: the step from its
\* second segment, or for a single segment any step from a cell of the grid
Headings(body) ==
    {d \in Directions(body, TRUE) : InBounds(Step(body[1], opposite(d)))}

\* C21: the moves a maximizing ply expands never include the reverse of the
\* acting snake's heading, whatever the snake's length.
C21_NoReverseAtMaxPly ==
    (Called("minimax") /\ args.maximizing_player /\ args.depth > 0) =>
        \A d \in Headings(args.my_b) :
            ~InSeq(opposite(d), expanded_moves(args.my_b[1], args.my_b, OppBody(args)))

\* the cells a walk over free cells reaches from the cells seen, whose last
\* additions are the frontier
RECURSIVE Reach(_, _, _)
Reach(seen, frontier, obstacles) ==
    IF frontier = {} THEN seen
    ELSE LET new == {c \in UNION {SeqToSet(Neighbours(d)) : d \in frontier} :
                        FreeCell(c, obstacles) /\ c \notin seen}
         IN Reach(seen \cup new, new, obstacles)

\* the cells a walk from the start over free cells can stand on
AstarReachable == Reach({args.start}, {args.start}, args.obstacles)

\* C22: _astar ends on every input, pops at most max_nodes entries, and returns
\* the empty path whenever the target was not popped (its path then ends on
\* the target) and whenever no walk over free cells leads from the start to
\* the target.
C22_AstarBounded ==
    Called("astar") =>
        /\ out.nodes <= args.max_nodes
        /\ (out.path # <<>> => out.path[Len(out.path)] = args.target)
        /\ (args.target \notin AstarReachable => out.path = <<>>)

\* a search that the budget ends before it pops a target it could reach
C22_Witness ==
    /\ Called("astar")
    /\ args.target \in AstarReachable
    /\ args.max_nodes = MaxNodeBudget
    /\ out.nodes = args.max_nodes
    /\ out.path = <<>>

\* C22 as stated: the path is empty also whenever the target is an obstacle,
\* the start cell included
C22_Original ==
    Called("astar") =>
        /\ out.nodes <= args.max_nodes
        /\ ((args.target \notin AstarReachable \/ args.target \in args.obstacles)
               => out.path = <<>>)

(***************************************************************************)
(* SpecPredict: _predict_opponent_next_heads on an opponent of up to       *)
(* MaxGameLen segments, live or dead, heading the way its head last moved. *)
(***************************************************************************)
InitPredict ==
    /\ fn = "predict" /\ out = NoneVal
    /\ \E p \in Paths(MaxGameLen), a \in BOOLEAN, n \in 1 .. predict_steps :
       \E d \in Directions(p, a) :
          /\ p[1] \in HeadCells
          /\ args = [opponent |-> [present |-> TRUE, segments |-> p, direction |-> d,
                                   alive |-> a],
                     steps |-> n]
    /\ BotIdle /\ GameIdle

CallPredict ==
    /\ fn = "predict" /\ out = NoneVal
    /\ out' = [ret |-> predict_opponent_next_heads(args.opponent, args.steps)]
    /\ UNCHANGED <<fn, args, botVars, gameVars>>

SpecPredict == InitPredict /\ [][CallPredict]_vars

\* C23: the predictor returns at most `steps` cells, all of them in bounds and
\* none of them on a segment of the opponent itself.
C23_PredictorStopsAtUnsafe ==
    Called("predict") =>
        /\ Len(out.ret) <= args.steps
        /\ \A i \in 1 .. Len(out.ret) :
              /\ InBounds(out.ret[i])
              /\ out.ret[i] \notin SeqToSet(args.opponent.segments)

\* two live, unshielded snakes with their heads on one cell, snake i with
\* the lower score
HeadToHeadLower(i) ==
    /\ snap0[1].alive /\ snap0[2].alive
    /\ snap0[1].shield_timer = 0 /\ snap0[2].shield_timer = 0
    /\ snap0[1].segments[1] = snap0[2].segments[1]
    /\ snap0[i].score < snap0[3 - i].score

Resolved(i) == IF i = 1 THEN snake1 ELSE snake2

\* the segments of s without its last n, as far as min_snake_length allows
WithoutTail(s, n) ==
    SubSeq(s, 1, Len(s) - Min2(n, Max2(0, Len(s) - min_snake_length)))

\* C24: in a head-to-head collision of unshielded snakes with different
\* scores the lower-scoring snake loses head_collision_penalty once (floored
\* at 0) and collision_segment_penalty tail segments as far as the minimum
\* length allows, and gets a shield; the other snake is unchanged.
C24_LowerScorePenalised ==
    \A i \in {1, 2} :
        (resolved /\ HeadToHeadLower(i)) =>
            /\ Resolved(i).score = Max2(0, snap0[i].score - head_collision_penalty)
            /\ Resolved(i).segments
                   = WithoutTail(snap0[i].segments, collision_segment_penalty)
            /\ Resolved(i).shield_timer = shield_duration
            /\ Resolved(3 - i) = snap0[3 - i]

(***************************************************************************)
(* SpecTurn: one snake from Snake.reset under any interleaving of          *)
(* Snake.change_direction and Snake.update.  An update with dt = 0 does    *)
(* not reach the move interval, one with dt = FrameTime does.  frame       *)
(* counts the calls of change_direction since the last move, up to         *)
(* MaxTurns, and records whether one of them was refused.                  *)
(***************************************************************************)
MaxTurns == 2

NoTurns == [calls |-> 0, refused |-> FALSE]

InitTurn ==
    /\ \E c \in Cells : snake1 = Snake(<<c>>, RIGHT, 0, 0, 0)
    /\ frame = NoTurns
    /\ snake2 = NoneVal /\ crashed = FALSE /\ resolved = FALSE
    /\ food_positions = {} /\ trap_positions = {}
    /\ BotIdle /\ FnIdle

ChangeDirection ==
    /\ frame.calls < MaxTurns
    /\ \E new_dir \in SeqToSet(AllMoves) :
          /\ snake1' = change_direction(snake1, new_dir)
          /\ frame' = [calls |-> frame.calls + 1,
                       refused |-> frame.refused
                                   \/ new_dir = opposite(snake1.direction)]
    /\ UNCHANGED <<botVars, fnVars, snake2, crashed, resolved, food_positions,
                   trap_positions>>

Update ==
    /\ \E dt \in {0, FrameTime} :
          /\ snake1' = Snake_update(snake1, dt)
          /\ frame' = IF snake1.alive /\ dt * SNAKE_SPEED >= 1 THEN NoTurns ELSE frame
    /\ UNCHANGED <<botVars, fnVars, snake2, crashed, resolved, food_positions,
                   trap_positions>>

SpecTurn == InitTurn /\ [][ChangeDirection \/ Update]_vars

\* C25: in every reachable state next_direction is not the opposite of
\* direction, so no move reverses the move before it, however many calls of
\* change_direction arrive between two moves.
C25_NoReverse ==
    snake1.next_direction # opposite(snake1.direction)

\* two calls between two moves, one of them refused, and a turn pending
C25_Witness ==
    /\ snake1.alive
    /\ frame.calls >= 2
    /\ frame.refused
    /\ snake1.next_direction # snake1.direction

\* each segment of s is one axis-aligned unit step from the one before it
UnitSteps(s) ==
    \A k \in 1 .. Len(s.segments) - 1 : Adjacent(s.segments[k], s.segments[k + 1])

\* the head of s is on none of its other segments
HeadClear(s) == s.segments[1] \notin SeqToSet(Tail1(s.segments))

\* C26: after any frames of moves, growth, trap hits and collision penalties
\* the consecutive segments of each snake are one axis-aligned unit step
\* apart, and the head of a live snake is on none of its other segments.
C26_SegmentsChained ==
    \A i \in {1, 2} :
        /\ UnitSteps(Final(i))
        /\ Final(i).alive => HeadClear(Final(i))

\* snake1 grew by its move and lost segments to a trap in the same frame,
\* and is alive with several segments
C26_Witness ==
    /\ OnTrapAtCheck(1)
    /\ Len(frame.moved[1].segments) > Len(frame.before[1].segments)
    /\ Len(frame.trapped[1].segments) < Len(frame.fed[1].segments)
    /\ snake1.alive
    /\ Len(snake1.segments) >= min_snake_length

\* C27: the length attribute of each snake is the number of its segments in
\* every reachable state.
C27_LengthIsSegments ==
    \A i \in {1, 2} : Final(i).length = Len(Final(i).segments)

\* a legal move that is_safe accepts and that does not step on a trap
TrapFree(m) == SafeLegal(m) /\ ~OnTrap(HeadAfter(m), snap0.traps)

\* C28: when traps are passed and some non-reverse move leads to a cell that
\* is_safe accepts and that holds no trap, decide_move returns no move onto
\* a trap, whatever the time budget, the food and the shield.
C28_AvoidsTraps ==
    \A i \in 1 .. Len(results) :
        (Len(snap0.traps) > 0 /\ \E m \in UnitVectors : TrapFree(m)) =>
            ~OnTrap(HeadAfter(results[i].move), snap0.traps)

\* no time at all and a trap on the cell straight ahead: the move is drawn
\* at random from the safe moves and steps elsewhere
C28_Witness ==
    /\ Len(results) > 0
    /\ budget = <<0>>
    /\ snap0.traps = <<HeadAfter(snap0.snake.direction)>>
    /\ results[1].via = "random"
    /\ TrapFree(results[1].move)

\* C29: a non-empty path of _astar starts at the start cell and ends at the
\* target, its consecutive cells are one 4-connected step apart, and every
\* cell after the start is in bounds and no obstacle; the second cell, when
\* there is one, is next to the start.
C29_PathWellFormed ==
    (Called("astar") /\ out.path # <<>>) =>
        /\ out.path[1] = args.start
        /\ out.path[Len(out.path)] = args.target
        /\ \A k \in 1 .. Len(out.path) - 1 : Adjacent(out.path[k], out.path[k + 1])
        /\ \A k \in 2 .. Len(out.path) :
              InBounds(out.path[k]) /\ out.path[k] \notin args.obstacles
        /\ Len(out.path) > 1 => Adjacent(args.start, out.path[2])

\* a path that has to go round an obstacle: it is longer than the Manhattan
\* distance between its ends
C29_Witness ==
    /\ Called("astar")
    /\ args.obstacles # {}
    /\ Len(out.path) - 1 > Manhattan(args.start, args.target)

(***************************************************************************)
(* tournament.py: Tournament.record_round.  SpecTournament keeps the       *)
(* Tournament object in snap and its results list in results.  A win ratio *)
(* is the fraction num / den, 0.0 being 0 / 1.  Up to MaxRounds rounds are *)
(* recorded; the snakes' names are the ones reset_round has set.           *)
(***************************************************************************)
MaxRounds == 2

NoWinner == "None"

Ratio(num, den) == [num |-> num, den |-> den]

\* lines 7-26, with the names of main.py lines 97-98
Tournament ==
    [current_round |-> 1, snake1_wins |-> 0, snake2_wins |-> 0,
     total_snake1_apples |-> 0, total_snake2_apples |-> 0,
     snake1_name |-> "snake1", snake2_name |-> "snake2",
     crashed_rounds |-> 0, draw_rounds |-> 0,
     snake1_total_traps |-> 0, snake2_total_traps |-> 0,
     snake1_total_collisions |-> 0, snake2_total_collisions |-> 0,
     snake1_losses |-> 0, snake2_losses |-> 0,
     snake1_win_ratio |-> Ratio(0, 1), snake2_win_ratio |-> Ratio(0, 1)]

\* lines 50-53: total_rounds is len(self.results) before the append
win_ratios(t, total_rounds, winner) ==
    IF total_rounds > 0
    THEN [t EXCEPT !.snake1_win_ratio = Ratio(t.snake1_wins, total_rounds),
                   !.snake2_win_ratio = Ratio(t.snake2_wins, total_rounds)]
    ELSE t

\* lines 45-48
losses(t, winner) ==
    IF winner = t.snake1_name THEN [t EXCEPT !.snake2_losses = @ + 1]
    ELSE IF winner = t.snake2_name THEN [t EXCEPT !.snake1_losses = @ + 1]
    ELSE t

\* lines 55-75
totals(t, winner, snake1_score, snake2_score, snake1_traps_hit, snake2_traps_hit, snake1_collisions, snake2_collisions) ==
    [t EXCEPT !.draw_rounds = IF winner = NoWinner THEN @ + 1 ELSE @,
              !.crashed_rounds = IF snake1_score = 0 /\ snake2_score = 0
                                 THEN @ + 1 ELSE @,
              !.total_snake1_apples = @ + snake1_score,
              !.total_snake2_apples = @ + snake2_score,
              !.snake1_total_traps = @ + snake1_traps_hit,
              !.snake2_total_traps = @ + snake2_traps_hit,
              !.snake1_total_collisions = @ + snake1_collisions,
              !.snake2_total_collisions = @ + snake2_collisions,
              !.snake1_wins = IF winner = t.snake1_name THEN @ + 1 ELSE @,
              !.snake2_wins = IF winner = t.snake1_name THEN @
                              ELSE IF winner = t.snake2_name THEN @ + 1 ELSE @]

\* lines 77-96, without the timestamp
result_row(t, winner, snake1_score, snake2_score, snake1_traps_hit, snake2_traps_hit, snake1_collisions, snake2_collisions) ==
    [round |-> t.current_round, winner |-> winner,
     snake1_score |-> snake1_score, snake2_score |-> snake2_score,
     snake1_traps_hit |-> snake1_traps_hit, snake2_traps_hit |-> snake2_traps_hit,
     snake1_collisions |-> snake1_collisions, snake2_collisions |-> snake2_collisions,
     is_draw |-> winner = NoWinner,
     is_crash |-> (snake1_score = 0 /\ snake2_score = 0),
     total_snake1_apples |-> t.total_snake1_apples,
     total_snake2_apples |-> t.total_snake2_apples,
     WL_Ratio_Snake1 |-> t.snake1_win_ratio,
     WL_Ratio_Snake2 |-> t.snake2_win_ratio]

\* lines 28-97: the Tournament object before the append of line 77
record_round(t, total_rounds, winner, snake1_score, snake2_score, snake1_traps_hit, snake2_traps_hit, snake1_collisions, snake2_collisions) ==
    totals(win_ratios(losses(t, winner), total_rounds, winner),
           winner, snake1_score, snake2_score, snake1_traps_hit, snake2_traps_hit,
           snake1_collisions, snake2_collisions)

InitTournament ==
    /\ snap = Tournament
    /\ results = <<>>
    /\ snap0 = NoneVal /\ budget = 0 /\ randomness = 0
    /\ FnIdle /\ GameIdle

\* the traps and collisions of snake2 keep their default, 0
RecordRound ==
    /\ Len(results) < MaxRounds
    /\ \E winner \in {snap.snake1_name, snap.snake2_name, NoWinner},
          snake1_score \in {0, MaxScore}, snake2_score \in {0, MaxScore},
          snake1_traps_hit \in {0, 1} :
          LET t == record_round(snap, Len(results), winner, snake1_score,
                                snake2_score, snake1_traps_hit, 0, 0, 0)
          IN /\ results' = Append(results,
                                  result_row(t, winner, snake1_score, snake2_score,
                                             snake1_traps_hit, 0, 0, 0))
             /\ snap' = [t EXCEPT !.current_round = @ + 1]
    /\ UNCHANGED <<snap0, budget, randomness, fnVars, gameVars>>

SpecTournament == InitTournament /\ [][RecordRound]_vars

\* the ratio times the number of rounds is the number of wins
RatioOf(ratio, wins, rounds) == ratio.num * rounds = wins * ratio.den

\* C30: after every record_round the stored win ratio of each snake is its
\* win count over the number of rounds recorded, the current one included,
\* and the row of that round holds the same values.
C30_WinRatio ==
    Len(results) > 0 =>
        /\ RatioOf(snap.snake1_win_ratio, snap.snake1_wins, Len(results))
        /\ RatioOf(snap.snake2_win_ratio, snap.snake2_wins, Len(results))
        /\ results[Len(results)].WL_Ratio_Snake1 = snap.snake1_win_ratio
        /\ results[Len(results)].WL_Ratio_Snake2 = snap.snake2_win_ratio

====
